---------------------------- MODULE Spec2Model ----------------------------
(***************************************************************************)
(* Lucentia frontend: the insight ranking / aggregation engine             *)
(* (Dashboard.jsx, Insights page) and the cash-flow projection engine      *)
(* (Dashboard.jsx).  Every engine is a pure function of its arguments, so  *)
(* each one gets a specification whose initial states draw the arguments   *)
(* from bounded sets and whose single action applies the function.         *)
(*                                                                         *)
(* Conventions.  A JavaScript string is a TLA+ string.  A property that is *)
(* absent (undefined / null) is the string Undefined.  Timestamps are      *)
(* counted in days since the epoch instead of milliseconds.                *)
(***************************************************************************)
EXTENDS Integers, Sequences, FiniteSets, TLC

VARIABLES
    pc,             \* which step of the exercised engine has run
    cmpArgs,        \* compareInsights: the insights handed to the comparator
    cmpOut,         \* compareInsights: the results, cmpOut[i][j] = compare(i, j)
    domains,        \* mergeSimilarInsights: the Domain -> Family -> Insight tree
    merged,         \* mergeSimilarInsights: the returned array
    insights,       \* getDiverseInsights: the insights argument
    limit,          \* getDiverseInsights: the limit argument
    selection,      \* getDiverseInsights: the returned array
    sectionInput,   \* buildAllDomainSections: the merged collection
    sections,       \* buildAllDomainSections: the returned groups
    chipInput,      \* buildSummaryChips: the merged collection
    chips,          \* buildSummaryChips: the outcome (chips, or a thrown error)
    transactions,   \* buildFinancialProjection: the ledger
    currentBalance, \* buildFinancialProjection: the balance argument
    projection,     \* buildFinancialProjection: the returned object
    now,            \* the host clock (new Date()), in months
    replay,         \* buildFinancialProjection: what a second call returns
    shuffled,       \* buildFinancialProjection: the ledger of the second call
    user,           \* App: the id of the logged-in user (0: null)
    linkToken,      \* App: the linkToken state, a token named by its owner (0: null)
    storedToken,    \* App: localStorage 'plaid_link_token' (0: absent)
    isConnected,    \* App: the isConnected state
    linkError,      \* App: whether linkError holds a message
    linkLoading,    \* App: the linkLoading state
    calls,          \* App: the requests in flight, each with the handler awaiting it
    logins,         \* App: how many times the login form was submitted
    refreshes       \* App: how many times the link was refreshed

appVars == <<user, linkToken, storedToken, isConnected, linkError, linkLoading,
             calls, logins, refreshes>>

vars == <<pc, cmpArgs, cmpOut, domains, merged, insights, limit, selection,
          sectionInput, sections, chipInput, chips,
          transactions, currentBalance, projection, now, replay, shuffled, appVars>>

\* The App of a specification that exercises one engine only.
AppIdle ==
    /\ user = 0 /\ linkToken = 0 /\ storedToken = 0
    /\ isConnected = FALSE /\ linkError = FALSE /\ linkLoading = FALSE
    /\ calls = {} /\ logins = 0 /\ refreshes = 0

\* The value of a variable no action of the running specification touches.
Idle == <<>>

\* An absent property (undefined or null).
Undefined == "<undefined>"

\* JavaScript truthiness of a string-valued property.
Truthy(v) == v # Undefined /\ v # ""

\* a || b on string-valued properties.
OrElse(a, b) == IF Truthy(a) THEN a ELSE b

\* The elements of a sequence.
Range(s) == {s[i] : i \in DOMAIN s}

Min(a, b) == IF a <= b THEN a ELSE b
Max(a, b) == IF a >= b THEN a ELSE b

\* s with x inserted before position p (1..Len(s)+1).
InsertAt(s, p, x) == SubSeq(s, 1, p - 1) \o <<x>> \o SubSeq(s, p, Len(s))

\* One step of a stable sort: x goes before the first already placed element
\* it compares strictly less than (their positions are `before'), else last.
Place(sorted, x, before) ==
    IF before = {} THEN Append(sorted, x)
    ELSE InsertAt(sorted, CHOOSE i \in before : \A j \in before : i <= j, x)

(***************************************************************************)
(* Scorer and Comparator (Dashboard.jsx)                                   *)
(***************************************************************************)

PRIORITY_RANK == [high |-> 0, medium |-> 1, low |-> 2]

QUICK_SCALE ==
    [restaurant_comeback |-> 5, favorite_restaurant_push |-> 5,
     payment_method_optimization |-> 5, category_subscription_opportunity |-> 5,
     cross_user_affinity |-> 4, merchant_loyalty |-> 4, merchant_bundling |-> 4,
     duplicate_services |-> 4, duplicate_subscription |-> 4, category_spike |-> 4,
     category_trend |-> 3, fee_detection |-> 3, balance_warning |-> 5,
     cash_buffer |-> 5, air_travel_footprint |-> 3, default |-> 2]

\* String(value).toLowerCase() on the priority spellings of the model.
toLowerCase(s) ==
    CASE s = "HIGH" -> "high"
      [] s = "Medium" -> "medium"
      [] OTHER -> s

getPriorityRankSwapped(value) ==
    IF ~Truthy(value) THEN 3
    ELSE LET normalized == toLowerCase(value)
         IN  IF normalized \in DOMAIN PRIORITY_RANK
             THEN 2 - PRIORITY_RANK[normalized] ELSE 3

getPriorityRank(value) ==
    IF ~Truthy(value) THEN 3
    ELSE LET normalized == toLowerCase(value)
         IN  IF normalized \in DOMAIN PRIORITY_RANK
             THEN PRIORITY_RANK[normalized] ELSE 3

\* Date.parse on the timestamp strings of the model, in days since the epoch.
\* Every other string is unparseable (Date.parse gives NaN).
DateTable ==
    ("1969-12-31" :> (0 - 1)) @@ ("1970-01-01" :> 0) @@
    ("2024-05-01" :> 19844) @@ ("2024-06-01" :> 19875)

DateParseIsNaN(value) == value \notin DOMAIN DateTable

parseTimestamp(value) ==
    IF ~Truthy(value) THEN 0
    ELSE IF DateParseIsNaN(value) THEN 0 ELSE DateTable[value]

scoreInsight(insight) ==
    LET family == OrElse(insight.familyKey, insight.family)
    IN  [priorityScore |-> getPriorityRank(insight.priority),
         recencyScore  |-> 0 - parseTimestamp(OrElse(insight.created_at, insight.updated_at)),
         quickScore    |-> IF family \in DOMAIN QUICK_SCALE
                           THEN QUICK_SCALE[family] ELSE QUICK_SCALE.default]

compareInsightsMixed(a, b) ==
    LET aScore == scoreInsight(a)
        bScore == scoreInsight(b)
    IN  IF aScore.quickScore # bScore.quickScore
        THEN bScore.quickScore - aScore.quickScore
        ELSE IF aScore.priorityScore # bScore.priorityScore
        THEN aScore.priorityScore - bScore.quickScore
        ELSE aScore.recencyScore - bScore.recencyScore

compareInsights(a, b) ==
    LET aScore == scoreInsight(a)
        bScore == scoreInsight(b)
    IN  IF aScore.quickScore # bScore.quickScore
        THEN bScore.quickScore - aScore.quickScore
        ELSE IF aScore.priorityScore # bScore.priorityScore
        THEN aScore.priorityScore - bScore.priorityScore
        ELSE aScore.recencyScore - bScore.recencyScore

\* Array.prototype.sort(compareInsights): stable.
sortInsights(s) ==
    LET run[k \in 0..Len(s)] ==
            IF k = 0 THEN <<>>
            ELSE LET sorted == run[k - 1]
                 IN  Place(sorted, s[k],
                           {i \in 1..Len(sorted) : compareInsights(s[k], sorted[i]) < 0})
    IN  run[Len(s)]

(***************************************************************************)
(* Specification of the Comparator: the arguments are drawn, then every    *)
(* pair of them is compared.                                               *)
(***************************************************************************)

CmpInsight(fk, f, p, c, u) ==
    [familyKey |-> fk, family |-> f, priority |-> p, created_at |-> c, updated_at |-> u]

\* Every combination of present, absent, listed, unlisted and malformed fields.
CmpTimes ==
    {<<c, Undefined>> : c \in {Undefined, "", "garbage", "1969-12-31", "2024-05-01"}}
        \cup {<<c, "2024-06-01">> : c \in {Undefined, ""}}

CmpRich ==
    {CmpInsight(fk, f, p, t[1], t[2]) :
        fk \in {Undefined, "restaurant_comeback", "favorite_merchants"},
        f \in {Undefined, "merchant_loyalty"},
        p \in {Undefined, "high", "HIGH", "Medium", "low", "urgent"},
        t \in CmpTimes}

\* A smaller set that still varies every level of the order, for triples.
CmpLean ==
    {CmpInsight(fk, Undefined, p, c, Undefined) :
        fk \in {"restaurant_comeback", "favorite_merchants"},
        p \in {Undefined, "high", "low"},
        c \in {"garbage", "1969-12-31", "2024-05-01"}}

InitCompare ==
    /\ pc = "compare"
    /\ \/ \E a, b \in CmpRich : cmpArgs = <<a, b, a>>
       \/ \E a, b, c \in CmpLean : cmpArgs = <<a, b, c>>
    /\ cmpOut = Idle
    /\ domains = Idle /\ merged = Idle
    /\ insights = Idle /\ limit = 0 /\ selection = Idle
    /\ sectionInput = Idle /\ sections = Idle
    /\ chipInput = Idle /\ chips = Idle
    /\ transactions = Idle /\ currentBalance = Idle /\ projection = Idle
    /\ now = Idle /\ replay = Idle /\ shuffled = Idle /\ AppIdle

Compare ==
    /\ pc = "compare"
    /\ cmpOut' = [i \in 1..3 |-> [j \in 1..3 |-> compareInsights(cmpArgs[i], cmpArgs[j])]]
    /\ pc' = "compared"
    /\ UNCHANGED <<cmpArgs, domains, merged, insights, limit, selection,
                   sectionInput, sections, chipInput, chips,
                   transactions, currentBalance, projection, now, replay, shuffled, appVars>>

NextCompare == Compare

SpecCompare == InitCompare /\ [][NextCompare]_vars

\* The Scorer's triple as section 4.1 of the specification states it.
StatedRank(i) ==
    LET p == toLowerCase(i.priority)
    IN  CASE p = "high" -> 0 [] p = "medium" -> 1 [] p = "low" -> 2 [] OTHER -> 3

StatedFamily(i) == OrElse(i.familyKey, i.family)

StatedQuick(i) ==
    LET f == StatedFamily(i)
    IN  CASE f \in {"restaurant_comeback", "favorite_restaurant_push",
                    "payment_method_optimization", "category_subscription_opportunity",
                    "balance_warning", "cash_buffer"} -> 5
          [] f \in {"cross_user_affinity", "merchant_loyalty", "merchant_bundling",
                    "duplicate_services", "duplicate_subscription", "category_spike"} -> 4
          [] f \in {"category_trend", "fee_detection", "air_travel_footprint"} -> 3
          [] OTHER -> 2

StatedTime(i) ==
    LET t == OrElse(i.created_at, i.updated_at)
    IN  CASE t = "1969-12-31" -> 0 - 1
          [] t = "2024-05-01" -> 19844
          [] t = "2024-06-01" -> 19875
          [] OTHER -> 0

StatedBefore(a, b) ==
    \/ StatedQuick(a) > StatedQuick(b)
    \/ StatedQuick(a) = StatedQuick(b) /\ StatedRank(a) < StatedRank(b)
    \/ StatedQuick(a) = StatedQuick(b) /\ StatedRank(a) = StatedRank(b)
            /\ StatedTime(a) > StatedTime(b)

\* C3: compareInsights(a, b) is negative exactly when a has the higher
\* quickScore, or the same quickScore and the lower priorityRank, or the same
\* quickScore and priorityRank and the more recent timestamp; it is 0 exactly
\* when neither insight comes before the other.  priorityRank is 0/1/2 for
\* high/medium/low (read case-insensitively) and 3 otherwise, quickScore is
\* the default entry for unlisted families, an unparseable or absent
\* timestamp counts as 0.
C3_ComparatorOrder ==
    pc = "compared" =>
        \A i, j \in 1..3 :
            /\ (cmpOut[i][j] < 0) <=> StatedBefore(cmpArgs[i], cmpArgs[j])
            /\ (cmpOut[i][j] = 0) <=>
                    (~StatedBefore(cmpArgs[i], cmpArgs[j]) /\ ~StatedBefore(cmpArgs[j], cmpArgs[i]))

\* Two insights of an unlisted family and of unknown priority, ordered by the
\* timestamp alone, the unparseable one (0) being the more recent.
C3_Witness ==
    /\ pc = "compared"
    /\ cmpArgs[1].familyKey = "favorite_merchants" /\ cmpArgs[2].familyKey = "favorite_merchants"
    /\ cmpArgs[1].priority = "urgent" /\ cmpArgs[2].priority = Undefined
    /\ cmpArgs[1].created_at = "garbage" /\ cmpArgs[2].created_at = "1969-12-31"
    /\ cmpOut[1][2] < 0 /\ cmpOut[2][1] > 0

Sign(n) == IF n < 0 THEN 0 - 1 ELSE IF n > 0 THEN 1 ELSE 0

\* C4: compareInsights is a strict weak ordering: irreflexive, asymmetric
\* (the sign of compare(a, b) is the opposite of the sign of compare(b, a)),
\* transitive, and with a transitive "compares equal" relation.
C4_StrictWeakOrder ==
    pc = "compared" =>
        \A i, j, k \in 1..3 :
            /\ cmpOut[i][i] = 0
            /\ Sign(cmpOut[i][j]) = 0 - Sign(cmpOut[j][i])
            /\ (cmpOut[i][j] < 0 /\ cmpOut[j][k] < 0) => cmpOut[i][k] < 0
            /\ (cmpOut[i][j] = 0 /\ cmpOut[j][k] = 0) => cmpOut[i][k] = 0

\* Three insights in a strict chain, each link decided at a different level.
C4_Witness ==
    /\ pc = "compared"
    /\ cmpArgs[1] # cmpArgs[3]
    /\ cmpOut[1][2] < 0 /\ cmpOut[2][3] < 0 /\ cmpOut[1][3] < 0
    /\ scoreInsight(cmpArgs[1]).quickScore = scoreInsight(cmpArgs[2]).quickScore
    /\ scoreInsight(cmpArgs[2]).quickScore > scoreInsight(cmpArgs[3]).quickScore

(***************************************************************************)
(* Deduplicator / Merger (Insights page)                                   *)
(***************************************************************************)

\* The local `rank' of mergeSimilarInsights: an exact, case-sensitive lookup.
rank(priority) ==
    IF priority \in DOMAIN PRIORITY_RANK THEN PRIORITY_RANK[priority] ELSE 3

\* The nested forEach loops: every insight with its family and domain, in
\* domain-then-family-then-insight order.
FamilyVisits(domain, family) ==
    [k \in 1..Len(family.insights) |->
        [domain |-> [key |-> domain.key, name |-> domain.name],
         family |-> [key |-> family.key, name |-> family.name],
         insight |-> family.insights[k]]]

DomainVisits(domain) ==
    LET acc[k \in 0..Len(domain.families)] ==
            IF k = 0 THEN <<>>
            ELSE acc[k - 1] \o FamilyVisits(domain, domain.families[k])
    IN  acc[Len(domain.families)]

Traversal(ds) ==
    LET acc[k \in 0..Len(ds)] ==
            IF k = 0 THEN <<>> ELSE acc[k - 1] \o DomainVisits(ds[k])
    IN  acc[Len(ds)]

mergeKeyByDomain(visit) == visit.domain.key \o "|" \o visit.insight.title

\* const key = `${family.key}|${insight.title}`
mergeKey(visit) == visit.family.key \o "|" \o visit.insight.title

\* { ...insight, domainKey, domainName, familyKey, familyName }
\* (the two description fields are copied likewise and read by no engine).
Annotated(visit) ==
    [id |-> visit.insight.id, title |-> visit.insight.title,
     priority |-> visit.insight.priority, data |-> visit.insight.data,
     domainKey |-> visit.domain.key, domainName |-> visit.domain.name,
     familyKey |-> visit.family.key, familyName |-> visit.family.name]

replacesKeptLax(visit, kept) == rank(visit.insight.priority) <= rank(kept.priority)

\* rank(insight.priority) < rank(map.get(key).priority)
replacesKept(visit, kept) == rank(visit.insight.priority) < rank(kept.priority)

\* One pass of the innermost loop on the Map, held as the sequence of its
\* entries in insertion order (Map.set on a present key keeps its position).
mergeVisit(map, visit) ==
    LET key == mergeKey(visit)
        at  == {i \in 1..Len(map) : map[i].key = key}
    IN  IF at = {}
        THEN Append(map, [key |-> key, value |-> Annotated(visit)])
        ELSE LET i == CHOOSE i \in at : TRUE
             IN  IF replacesKept(visit, map[i].value)
                 THEN [map EXCEPT ![i].value = Annotated(visit)]
                 ELSE map

mergeSimilarInsights(ds) ==
    LET visits == Traversal(ds)
        map[k \in 0..Len(visits)] ==
            IF k = 0 THEN <<>> ELSE mergeVisit(map[k - 1], visits[k])
        entries == map[Len(visits)]
    IN  [i \in 1..Len(entries) |-> entries[i].value]

(***************************************************************************)
(* Specification of the Merger.  The tree has two domains and three family *)
(* places; the second domain repeats a family key of the first, and one    *)
(* family key and one title contain the separator of the Map key.  A feed  *)
(* of at most MaxMergeInsights insights is distributed over the places.    *)
(***************************************************************************)

MaxMergeInsights == 3

MergePlaces ==
    <<[domain |-> 1, key |-> "dining", titles |-> {"up|20", "20"}],
      [domain |-> 1, key |-> "dining|up", titles |-> {"20"}],
      [domain |-> 2, key |-> "dining", titles |-> {"up|20"}]>>

MergePriorities == {"high", "medium", "low", Undefined}

MergeEntries ==
    {[place |-> pl, title |-> t, priority |-> p] :
        pl \in 1..Len(MergePlaces), t \in {"up|20", "20"}, p \in MergePriorities}

MergeFeeds ==
    UNION {{f \in [1..n -> MergeEntries] :
                \A i \in 1..n : f[i].title \in MergePlaces[f[i].place].titles} :
           n \in 0..MaxMergeInsights}

\* The insights of a feed that go to place pl, in feed order; the id of an
\* insight is its position in the feed.
PlaceInsights(feed, pl) ==
    LET acc[k \in 0..Len(feed)] ==
            IF k = 0 THEN <<>>
            ELSE IF feed[k].place = pl
                 THEN Append(acc[k - 1],
                             [id |-> k, title |-> feed[k].title,
                              priority |-> feed[k].priority, data |-> Undefined])
                 ELSE acc[k - 1]
    IN  acc[Len(feed)]

MergeFamily(feed, pl) ==
    [key |-> MergePlaces[pl].key, name |-> "Dining", insights |-> PlaceInsights(feed, pl)]

MergeTree(feed) ==
    <<[key |-> "spending_patterns", name |-> "Spending Patterns",
       families |-> <<MergeFamily(feed, 1), MergeFamily(feed, 2)>>],
      [key |-> "spending_trends", name |-> "Spending Trends",
       families |-> <<MergeFamily(feed, 3)>>]>>

InitMerge ==
    /\ pc = "merge"
    /\ \E feed \in MergeFeeds : domains = MergeTree(feed)
    /\ merged = Idle
    /\ cmpArgs = Idle /\ cmpOut = Idle
    /\ insights = Idle /\ limit = 0 /\ selection = Idle
    /\ sectionInput = Idle /\ sections = Idle
    /\ chipInput = Idle /\ chips = Idle
    /\ transactions = Idle /\ currentBalance = Idle /\ projection = Idle
    /\ now = Idle /\ replay = Idle /\ shuffled = Idle /\ AppIdle

Merge ==
    /\ pc = "merge"
    /\ merged' = mergeSimilarInsights(domains)
    /\ pc' = "merged"
    /\ UNCHANGED <<cmpArgs, cmpOut, domains, insights, limit, selection,
                   sectionInput, sections, chipInput, chips,
                   transactions, currentBalance, projection, now, replay, shuffled, appVars>>

NextMerge == Merge

SpecMerge == InitMerge /\ [][NextMerge]_vars

\* C1: the array returned by mergeSimilarInsights holds no two insights with
\* the same familyKey and the same title.
C1_NoDuplicatePair ==
    pc = "merged" =>
        \A i, j \in DOMAIN merged :
            (merged[i].familyKey = merged[j].familyKey /\ merged[i].title = merged[j].title)
                => i = j

\* The same family key under both domains with the same title three times:
\* one insight is returned.
C1_Witness ==
    /\ pc = "merged"
    /\ Len(Traversal(domains)) = 3
    /\ \A k \in 1..3 : /\ Traversal(domains)[k].family.key = "dining"
                        /\ Traversal(domains)[k].insight.title = "up|20"
    /\ Traversal(domains)[1].domain.key # Traversal(domains)[3].domain.key
    /\ Len(merged) = 1

\* The priority rank as section 4.2 states it: high 0, medium 1, low 2, other 3.
StatedMergeRank(p) ==
    CASE p = "high" -> 0 [] p = "medium" -> 1 [] p = "low" -> 2 [] OTHER -> 3

\* The visits that carry the same (familyKey, title) as the returned insight o.
SamePair(visits, o) ==
    {k \in 1..Len(visits) :
        visits[k].family.key = o.familyKey /\ visits[k].insight.title = o.title}

\* C2: every returned insight is, among the input insights with its
\* (familyKey, title), one of minimum priority rank, and the first of these in
\* domain-then-family-then-insight order; it carries the domain and family it
\* was met under.
C2_KeepsFirstOfBestRank ==
    pc = "merged" =>
        LET visits == Traversal(domains)
        IN  \A n \in DOMAIN merged :
                LET o == merged[n]
                    same == SamePair(visits, o)
                IN  \E k \in same :
                        /\ visits[k].insight.id = o.id
                        /\ visits[k].domain.key = o.domainKey
                        /\ o.priority = visits[k].insight.priority
                        /\ \A m \in same :
                              /\ StatedMergeRank(o.priority)
                                    <= StatedMergeRank(visits[m].insight.priority)
                              /\ m < k => StatedMergeRank(o.priority)
                                            < StatedMergeRank(visits[m].insight.priority)

\* Three insights of one (familyKey, title) with ranks 2, 0, 0 in traversal
\* order: the second one is kept.
C2_Witness ==
    /\ pc = "merged"
    /\ LET visits == Traversal(domains)
       IN  /\ Len(visits) = 3
           /\ \A k \in 1..3 : /\ visits[k].family.key = "dining"
                               /\ visits[k].insight.title = "up|20"
           /\ visits[1].insight.priority = "low"
           /\ visits[2].insight.priority = "high"
           /\ visits[3].insight.priority = "high"
           /\ Len(merged) = 1
           /\ merged[1].id = visits[2].insight.id

(***************************************************************************)
(* DiversitySelector (Dashboard.jsx)                                       *)
(***************************************************************************)

\* insight.family || insight.familyKey || 'uncategorized'
bucketKey(insight) == OrElse(insight.family, OrElse(insight.familyKey, "uncategorized"))

\* The reduce of lines 84-93: one bucket per key, in order of first
\* appearance, each holding its insights in input order.
groupStepApart(buckets, insight) ==
    Append(buckets, [familyKey |-> bucketKey(insight), insights |-> <<insight>>])

groupStep(buckets, insight) ==
    LET familyKey == bucketKey(insight)
        at == {i \in 1..Len(buckets) : buckets[i].familyKey = familyKey}
    IN  IF at = {}
        THEN Append(buckets, [familyKey |-> familyKey, insights |-> <<insight>>])
        ELSE LET i == CHOOSE i \in at : TRUE
             IN  [buckets EXCEPT ![i].insights = Append(@, insight)]

groupByFamily(list) ==
    LET acc[k \in 0..Len(list)] ==
            IF k = 0 THEN <<>> ELSE groupStep(acc[k - 1], list[k])
    IN  acc[Len(list)]

\* The comparator of sortBuckets: empty buckets last, else by the heads.
compareBuckets(a, b) ==
    IF a.insights = <<>> /\ b.insights = <<>> THEN 0
    ELSE IF a.insights = <<>> THEN 1
    ELSE IF b.insights = <<>> THEN 0 - 1
    ELSE compareInsights(a.insights[1], b.insights[1])

sortBucketsSkipped(buckets) == buckets

sortBuckets(buckets) ==
    LET run[k \in 0..Len(buckets)] ==
            IF k = 0 THEN <<>>
            ELSE LET sorted == run[k - 1]
                 IN  Place(sorted, buckets[k],
                           {i \in 1..Len(sorted) : compareBuckets(buckets[k], sorted[i]) < 0})
    IN  run[Len(buckets)]

passStopsNever(chosen, lim) == FALSE

\* if (selection.length === limit) break;
passStops(chosen, lim) == Len(chosen) = lim

\* One execution of the for loop of lines 110-119 over the buckets in their
\* current order: st is [buckets, selection, added].
takePass(buckets, chosen, lim) ==
    LET run[k \in 0..Len(buckets)] ==
            IF k = 0 THEN [buckets |-> buckets, selection |-> chosen, added |-> FALSE]
            ELSE LET st == run[k - 1]
                 IN  IF st.added /\ passStops(st.selection, lim) THEN st
                     ELSE IF st.buckets[k].insights = <<>> THEN st
                     ELSE [buckets |-> [st.buckets EXCEPT ![k].insights = Tail(@)],
                           selection |-> Append(st.selection, st.buckets[k].insights[1]),
                           added |-> TRUE]
    IN  run[Len(buckets)]

\* The while loop of lines 108-124.
RECURSIVE selectLoop(_, _, _)
selectLoop(buckets, chosen, lim) ==
    IF ~(Len(chosen) < lim) THEN chosen
    ELSE LET st == takePass(buckets, chosen, lim)
         IN  IF ~st.added THEN st.selection
             ELSE selectLoop(sortBuckets(st.buckets), st.selection, lim)

getDiverseInsights(list, lim) ==
    IF list = <<>> THEN <<>>
    ELSE LET grouped == groupByFamily(list)
             buckets == [i \in 1..Len(grouped) |->
                            [grouped[i] EXCEPT !.insights = sortInsights(@)]]
         IN  selectLoop(sortBuckets(buckets), <<>>, lim)

(***************************************************************************)
(* Specification of the DiversitySelector: a list of at most               *)
(* MaxDiverseInsights insights and a limit of at most MaxLimit.            *)
(***************************************************************************)

MaxDiverseInsights == 4
MaxLimit == 4

\* Two families of the same quickScore (5), one unlisted family (2), an
\* insight without any family ('uncategorized'), and one whose `family'
\* property (the bucket) differs from its familyKey (the score).
DiverseKinds ==
    {[family |-> Undefined, familyKey |-> fk, priority |-> p] :
        fk \in {"restaurant_comeback", "balance_warning", "favorite_merchants"},
        p \in {"high", "low"}}
    \cup {[family |-> Undefined, familyKey |-> Undefined, priority |-> "high"],
          [family |-> "balance_warning", familyKey |-> "favorite_merchants", priority |-> "high"]}

\* The id of an insight is its position in the list.
DiverseInsight(kind, n) ==
    [id |-> n, family |-> kind.family, familyKey |-> kind.familyKey,
     priority |-> kind.priority, created_at |-> "2024-05-01", updated_at |-> Undefined]

InitDiverse ==
    /\ pc = "select"
    /\ \E n \in 0..MaxDiverseInsights : \E kinds \in [1..n -> DiverseKinds] :
          insights = [k \in 1..n |-> DiverseInsight(kinds[k], k)]
    /\ limit \in 0..MaxLimit
    /\ selection = Idle
    /\ cmpArgs = Idle /\ cmpOut = Idle
    /\ domains = Idle /\ merged = Idle
    /\ sectionInput = Idle /\ sections = Idle
    /\ chipInput = Idle /\ chips = Idle
    /\ transactions = Idle /\ currentBalance = Idle /\ projection = Idle
    /\ now = Idle /\ replay = Idle /\ shuffled = Idle /\ AppIdle

Select ==
    /\ pc = "select"
    /\ selection' = getDiverseInsights(insights, limit)
    /\ pc' = "selected"
    /\ UNCHANGED <<cmpArgs, cmpOut, domains, merged, insights, limit,
                   sectionInput, sections, chipInput, chips,
                   transactions, currentBalance, projection, now, replay, shuffled, appVars>>

NextDiverse == Select

SpecDiverse == InitDiverse /\ [][NextDiverse]_vars

\* The families (bucket keys) of a list of insights.
FamiliesOf(list) == {bucketKey(list[k]) : k \in DOMAIN list}

\* C5: when the limit N is at most the number of distinct families of the
\* input, getDiverseInsights returns exactly N insights of N pairwise distinct
\* families; each is a best-ranked insight of its family (no insight of the
\* family comes before it under the Comparator), and no insight of a family
\* left out comes before a returned one.
C5_OnePerTopFamily ==
    (pc = "selected" /\ limit <= Cardinality(FamiliesOf(insights))) =>
        /\ Len(selection) = limit
        /\ \A i, j \in DOMAIN selection :
              bucketKey(selection[i]) = bucketKey(selection[j]) => i = j
        /\ \A i \in DOMAIN selection : \A k \in DOMAIN insights :
              \/ /\ bucketKey(insights[k]) # bucketKey(selection[i])
                 /\ bucketKey(insights[k]) \in FamiliesOf(selection)
              \/ compareInsights(selection[i], insights[k]) <= 0

\* Four insights of three families, limit 2: the heads of the two families
\* that rank highest are returned, a family of lower rank is left out.
C5_Witness ==
    /\ pc = "selected"
    /\ Len(insights) = 4 /\ limit = 2
    /\ Cardinality(FamiliesOf(insights)) = 3
    /\ Len(selection) = 2
    /\ \E k \in DOMAIN insights :
          /\ bucketKey(insights[k]) \notin FamiliesOf(selection)
          /\ compareInsights(selection[2], insights[k]) < 0
    /\ \E k \in DOMAIN insights :
          /\ bucketKey(insights[k]) = bucketKey(selection[1])
          /\ compareInsights(selection[1], insights[k]) < 0
          /\ k < selection[1].id

\* C6: for every list and every limit N >= 0 getDiverseInsights returns
\* exactly min(N, number of insights) items, each an element of the input, no
\* element twice.
C6_ExactCount ==
    pc = "selected" =>
        /\ Len(selection) = Min(limit, Len(insights))
        /\ \A i \in DOMAIN selection :
              selection[i].id \in DOMAIN insights /\ insights[selection[i].id] = selection[i]
        /\ \A i, j \in DOMAIN selection : selection[i].id = selection[j].id => i = j

\* Limit 3 of four insights in two families: the second pass stops after
\* one more item; a limit above the length is covered by the same check.
C6_Witness ==
    /\ pc = "selected"
    /\ Len(insights) = 4 /\ limit = 3 /\ Len(selection) = 3
    /\ Cardinality(FamiliesOf(insights)) = 2
    /\ bucketKey(selection[1]) # bucketKey(selection[2])

\* The number of insights of a list that fall in the bucket of a key.
CountOf(list, key) == Cardinality({k \in DOMAIN list : bucketKey(list[k]) = key})

\* C21: if some family contributes k items to the output of
\* getDiverseInsights, every other family of the input contributes at least
\* min(k - 1, the number of insights it has in the input).
C21_RoundRobinFair ==
    pc = "selected" =>
        \A f, g \in FamiliesOf(insights) :
            f # g => CountOf(selection, g)
                        >= Min(CountOf(selection, f) - 1, CountOf(insights, g))

\* One family supplies its second item while another one, which still had
\* an insight left, stays at one; a third family is exhausted after one.
C21_Witness ==
    /\ pc = "selected"
    /\ \E f, g \in FamiliesOf(insights) :
          /\ CountOf(selection, f) = 2
          /\ CountOf(selection, g) = 1 /\ CountOf(insights, g) = 2

\* A family with a single insight is exhausted and another one supplies three.
C21_WitnessExhausted ==
    /\ pc = "selected"
    /\ \E f, g \in FamiliesOf(insights) :
          /\ CountOf(selection, f) = 3
          /\ CountOf(selection, g) = 1 /\ CountOf(insights, g) = 1

(***************************************************************************)
(* SectionAllocator (Insights page)                                        *)
(***************************************************************************)

MAX_TOTAL == 15

domainOrder ==
    <<"spending_patterns", "spending_trends", "optimization_rewards",
      "behavior_lifestyle", "sustainability_local">>

crossFamilies ==
    {"cross_user_affinity", "delivery_vs_grocery", "subscription_volume",
     "subscription_price_change"}

\* The elements of a sequence that satisfy a filter given as the set of the
\* accepted elements, in order (Array.prototype.filter).
Filter(list, accepted) ==
    LET acc[k \in 0..Len(list)] ==
            IF k = 0 THEN <<>>
            ELSE IF list[k] \in accepted THEN Append(acc[k - 1], list[k]) ELSE acc[k - 1]
    IN  acc[Len(list)]

\* .slice(0, n)
Take(list, n) == SubSeq(list, 1, Min(n, Len(list)))

\* .sort((a, b) => priorityRank(a) - priorityRank(b)): stable.
sortByPriority(list) ==
    LET run[k \in 0..Len(list)] ==
            IF k = 0 THEN <<>>
            ELSE LET sorted == run[k - 1]
                 IN  Place(sorted, list[k],
                           {i \in 1..Len(sorted) :
                               rank(list[k].priority) - rank(sorted[i].priority) < 0})
    IN  run[Len(list)]

\* pickTop(filterFn, limit), the filter given as the set of accepted insights.
pickTop(list, accepted, n) == Take(sortByPriority(Filter(list, accepted)), n)

Ids(list) == {list[k].id : k \in DOMAIN list}

\* The same step without the test on selected.
domainStepUnclaimed(list, st, domainKey) ==
    LET domainInsights ==
            Take(sortByPriority(
                    Filter(list, {i \in Range(list) : i.domainKey = domainKey})), 2)
    IN  [selected |-> st.selected \cup Ids(domainInsights),
         groups |-> IF domainInsights # <<>>
                    THEN Append(st.groups, [key |-> domainKey, insights |-> domainInsights])
                    ELSE st.groups]

\* The domainOrder.forEach of lines 575-588: st is [selected, groups].
domainStep(list, st, domainKey) ==
    LET domainInsights ==
            Take(sortByPriority(
                    Filter(list, {i \in Range(list) :
                                    i.domainKey = domainKey /\ i.id \notin st.selected})), 2)
    IN  [selected |-> st.selected \cup Ids(domainInsights),
         groups |-> IF domainInsights # <<>>
                    THEN Append(st.groups, [key |-> domainKey, insights |-> domainInsights])
                    ELSE st.groups]

excessOffByOne(totalUsed) == totalUsed - MAX_TOTAL - 1

\* let excess = totalUsed - MAX_TOTAL (taken when totalUsed > MAX_TOTAL)
excessOf(totalUsed) == totalUsed - MAX_TOTAL

\* .splice(i, 1)
RemoveAt(list, i) == SubSeq(list, 1, i - 1) \o SubSeq(list, i + 1, Len(list))

\* The same loop visiting the groups from the first one up.
trimGroupsFromHead(groups, excess) ==
    LET n == Len(groups)
        run[k \in 0..n] ==
            IF k = 0 THEN [groups |-> groups, excess |-> excess, at |-> 1]
            ELSE LET st == run[k - 1]
                     i == st.at
                     popped == Min(Len(st.groups[i].insights), st.excess)
                     rest == Take(st.groups[i].insights, Len(st.groups[i].insights) - popped)
                 IN  IF ~(st.excess > 0) THEN st
                     ELSE [groups |-> IF rest = <<>> THEN RemoveAt(st.groups, i)
                                      ELSE [st.groups EXCEPT ![i].insights = rest],
                           excess |-> st.excess - popped,
                           at |-> IF rest = <<>> THEN i ELSE i + 1]
    IN  run[n].groups

\* The for loop of lines 595-604, from the last group down: st is
\* [groups, excess]; run[k] is the state after the k last groups were visited.
trimGroups(groups, excess) ==
    LET n == Len(groups)
        run[k \in 0..n] ==
            IF k = 0 THEN [groups |-> groups, excess |-> excess]
            ELSE LET st == run[k - 1]
                     i == n - k + 1
                     popped == Min(Len(st.groups[i].insights), st.excess)
                     rest == Take(st.groups[i].insights, Len(st.groups[i].insights) - popped)
                 IN  IF ~(st.excess > 0) THEN st
                     ELSE [groups |-> IF rest = <<>> THEN RemoveAt(st.groups, i)
                                      ELSE [st.groups EXCEPT ![i].insights = rest],
                           excess |-> st.excess - popped]
    IN  run[n].groups

GroupTotal(groups) ==
    LET acc[k \in 0..Len(groups)] ==
            IF k = 0 THEN 0 ELSE acc[k - 1] + Len(groups[k].insights)
    IN  acc[Len(groups)]

\* Lines 557-591: the three headline groups and the domain groups as they
\* stand before the cap is applied, with their total.
allocation(list) ==
    LET keyHighlights == pickTop(list, Range(list), 5)
        majorSpending ==
            pickTop(list, {i \in Range(list) : i.familyKey = "category_trend"}, 3)
        crossDomain ==
            pickTop(list, {i \in Range(list) : i.familyKey \in crossFamilies}, 3)
        selected == Ids(keyHighlights) \cup Ids(majorSpending) \cup Ids(crossDomain)
        byDomain[k \in 0..Len(domainOrder)] ==
            IF k = 0 THEN [selected |-> selected, groups |-> <<>>]
            ELSE domainStep(list, byDomain[k - 1], domainOrder[k])
        domainGroups == byDomain[Len(domainOrder)].groups
    IN  [keyHighlights |-> keyHighlights,
         majorSpending |-> majorSpending,
         crossDomain |-> crossDomain,
         domainGroups |-> domainGroups,
         totalUsed |-> Len(keyHighlights) + Len(majorSpending) + Len(crossDomain)
                          + GroupTotal(domainGroups)]

buildAllDomainSections(list) ==
    LET built == allocation(list)
    IN  [keyHighlights |-> built.keyHighlights,
         majorSpending |-> built.majorSpending,
         crossDomain |-> built.crossDomain,
         byDomain |-> IF built.totalUsed > MAX_TOTAL
                      THEN trimGroups(built.domainGroups, excessOf(built.totalUsed))
                      ELSE built.domainGroups]

(***************************************************************************)
(* Specification of the SectionAllocator.  The merged collection lists,    *)
(* domain by domain: some insights of an ordinary family, and under        *)
(* spending_trends up to MaxFamilyInsights of family category_trend, under *)
(* behavior_lifestyle up to MaxFamilyInsights of the cross-cutting         *)
(* families; a last domain is outside domainOrder.  Ids are positions.     *)
(***************************************************************************)

MaxFamilyInsights == 4

SectionDomainCounts == {0, 1, 3}

SectionDomains == domainOrder \o <<"financial_health">>

PriorityCycle == <<"high", "medium", "low", Undefined>>

\* The priority of the insight at position n under scheme k: k = 0 gives
\* every insight the same priority, the others vary it along the collection.
SchemePriority(k, n) == PriorityCycle[(((n - 1) * k) % 4) + 1]

CrossCycle ==
    <<"cross_user_affinity", "delivery_vs_grocery", "subscription_volume",
      "subscription_price_change">>

\* The family keys of one domain: its ordinary insights, then the special ones.
DomainFamilies(d, ordinary, trend, cross) ==
    [k \in 1..ordinary |-> "habit_frequency"]
        \o (IF SectionDomains[d] = "spending_trends"
            THEN [k \in 1..trend |-> "category_trend"] ELSE <<>>)
        \o (IF SectionDomains[d] = "behavior_lifestyle"
            THEN [k \in 1..cross |-> CrossCycle[((k - 1) % 4) + 1]] ELSE <<>>)

SectionCollection(counts, trend, cross, scheme) ==
    LET acc[d \in 0..Len(SectionDomains)] ==
            IF d = 0 THEN <<>>
            ELSE LET fams == DomainFamilies(d, counts[d], trend, cross)
                     base == Len(acc[d - 1])
                 IN  acc[d - 1] \o
                     [k \in 1..Len(fams) |->
                        [id |-> base + k, title |-> "t", data |-> Undefined,
                         priority |-> SchemePriority(scheme, base + k),
                         domainKey |-> SectionDomains[d], domainName |-> SectionDomains[d],
                         familyKey |-> fams[k], familyName |-> fams[k]]]
    IN  acc[Len(SectionDomains)]

InitSections ==
    /\ pc = "allocate"
    /\ \E counts \in [1..Len(SectionDomains) -> SectionDomainCounts],
          trend \in 0..MaxFamilyInsights, cross \in 0..MaxFamilyInsights,
          scheme \in {0, 1, 3} :
          sectionInput = SectionCollection(counts, trend, cross, scheme)
    /\ sections = Idle
    /\ cmpArgs = Idle /\ cmpOut = Idle
    /\ domains = Idle /\ merged = Idle
    /\ insights = Idle /\ limit = 0 /\ selection = Idle
    /\ chipInput = Idle /\ chips = Idle
    /\ transactions = Idle /\ currentBalance = Idle /\ projection = Idle
    /\ now = Idle /\ replay = Idle /\ shuffled = Idle /\ AppIdle

Allocate ==
    /\ pc = "allocate"
    /\ sections' = buildAllDomainSections(sectionInput)
    /\ pc' = "allocated"
    /\ UNCHANGED <<cmpArgs, cmpOut, domains, merged, insights, limit, selection,
                   sectionInput, chipInput, chips,
                   transactions, currentBalance, projection, now, replay, shuffled, appVars>>

NextSections == Allocate

SpecSections == InitSections /\ [][NextSections]_vars

\* The groups of a result, as one sequence of insight sequences.
AllGroups(r) ==
    <<r.keyHighlights, r.majorSpending, r.crossDomain>>
        \o [k \in 1..Len(r.byDomain) |-> r.byDomain[k].insights]

SectionTotal(r) ==
    Len(r.keyHighlights) + Len(r.majorSpending) + Len(r.crossDomain) + GroupTotal(r.byDomain)

\* C7: the insights of keyHighlights, majorSpending, crossDomain and all
\* byDomain groups of a result number at most 15 in total.
C7_TotalAtMostCap ==
    pc = "allocated" => SectionTotal(sections) <= 15

\* A collection whose groups held more than 15 before trimming: the three
\* fixed groups are full and the result holds exactly 15.
C7_Witness ==
    /\ pc = "allocated"
    /\ Len(sectionInput) >= 20
    /\ Len(sections.keyHighlights) = 5
    /\ Len(sections.majorSpending) = 3
    /\ Len(sections.crossDomain) = 3
    /\ SectionTotal(sections) = 15
    /\ Len(sections.byDomain) < 5

\* C8: no insight id appears in more than one group of a result
\* (keyHighlights, majorSpending, crossDomain, each byDomain group).
C8_NoIdInTwoGroups ==
    pc = "allocated" =>
        LET groups == AllGroups(sections)
        IN  \A g, h \in DOMAIN groups : g # h => Ids(groups[g]) \cap Ids(groups[h]) = {}

\* An insight of the merged collection as scoreInsight reads it: the
\* collection of this specification carries no family and no timestamp.
Scored(insight) ==
    [id |-> insight.id, priority |-> insight.priority,
     familyKey |-> insight.familyKey, family |-> Undefined,
     created_at |-> Undefined, updated_at |-> Undefined]

IdsInOrder(list) == [k \in 1..Len(list) |-> list[k].id]

\* C18: keyHighlights is the first 5 insights of the merged collection under
\* the Comparator order: higher quickScore, then lower priorityRank, then
\* more recent.
C18_KeyHighlightsByComparator ==
    pc = "allocated" =>
        IdsInOrder(sections.keyHighlights)
            = IdsInOrder(Take(sortInsights([k \in 1..Len(sectionInput) |->
                                              Scored(sectionInput[k])]), 5))

\* The insights of a list of domain groups in order, each as the pair of
\* its group's key and its id.
RECURSIVE Flat(_)
Flat(groups) ==
    IF groups = <<>> THEN <<>>
    ELSE [k \in 1..Len(groups[1].insights) |-> <<groups[1].key, groups[1].insights[k].id>>]
            \o Flat(Tail(groups))

IsPrefix(s, t) == Len(s) <= Len(t) /\ s = SubSeq(t, 1, Len(s))

\* C19: when the groups hold more than 15 insights, insights are removed only
\* from byDomain groups, from the last group backwards and from an earlier
\* group only once every later one is empty, an emptied group is absent;
\* keyHighlights, majorSpending and crossDomain are as built, and with a
\* total of at most 15 nothing is removed.
C19_TrimsFromTheTail ==
    pc = "allocated" =>
        LET built == allocation(sectionInput)
        IN  /\ sections.keyHighlights = built.keyHighlights
            /\ sections.majorSpending = built.majorSpending
            /\ sections.crossDomain = built.crossDomain
            /\ IsPrefix(Flat(sections.byDomain), Flat(built.domainGroups))
            /\ \A g \in DOMAIN sections.byDomain : sections.byDomain[g].insights # <<>>
            /\ built.totalUsed <= 15 => sections.byDomain = built.domainGroups

\* More than 15 were built; trimming emptied a group and shortened another
\* one that stays.
C19_Witness ==
    /\ pc = "allocated"
    /\ LET built == allocation(sectionInput)
       IN  /\ built.totalUsed > 15
           /\ Len(sections.byDomain) < Len(built.domainGroups)
           /\ \E g \in DOMAIN sections.byDomain :
                 Len(sections.byDomain[g].insights) < Len(built.domainGroups[g].insights)

\* More than 15 were built and whole groups were dropped from the tail.
C19_WitnessDropped ==
    /\ pc = "allocated"
    /\ LET built == allocation(sectionInput)
       IN  /\ built.totalUsed > 15
           /\ Len(sections.byDomain) + 2 <= Len(built.domainGroups)

\* The position of a domain key in the fixed order (0 when it is not there).
OrderIndex(key) ==
    IF \E k \in DOMAIN domainOrder : domainOrder[k] = key
    THEN CHOOSE k \in DOMAIN domainOrder : domainOrder[k] = key
    ELSE 0

\* C20: byDomain lists its groups in the order spending_patterns,
\* spending_trends, optimization_rewards, behavior_lifestyle,
\* sustainability_local; each group is non-empty, holds at most 2 insights,
\* all of its domain, and none of them is in keyHighlights, majorSpending,
\* crossDomain or an earlier domain group.
C20_DomainGroups ==
    pc = "allocated" =>
        LET groups == sections.byDomain
            headline == Ids(sections.keyHighlights) \cup Ids(sections.majorSpending)
                            \cup Ids(sections.crossDomain)
        IN  /\ \A g \in DOMAIN groups : OrderIndex(groups[g].key) > 0
            /\ \A g, h \in DOMAIN groups :
                    g < h => OrderIndex(groups[g].key) < OrderIndex(groups[h].key)
            /\ \A g \in DOMAIN groups :
                    /\ Len(groups[g].insights) \in 1..2
                    /\ \A k \in DOMAIN groups[g].insights :
                            groups[g].insights[k].domainKey = groups[g].key
                    /\ Ids(groups[g].insights) \cap headline = {}
                    /\ \A h \in 1..(g - 1) :
                            Ids(groups[g].insights) \cap Ids(groups[h].insights) = {}

\* Every domain of the fixed order has a group, and one of them belongs to a
\* domain that also gave insights to the headline groups.
C20_Witness ==
    /\ pc = "allocated"
    /\ Len(sections.byDomain) = 5
    /\ \E g \in DOMAIN sections.byDomain :
          /\ Len(sections.byDomain[g].insights) = 2
          /\ \E k \in DOMAIN sections.keyHighlights :
                sections.keyHighlights[k].domainKey = sections.byDomain[g].key

(***************************************************************************)
(* SummaryChipBuilder (Insights page)                                      *)
(*                                                                         *)
(* A value of the opaque payload is tagged with its JavaScript type.  The  *)
(* numbers of the model are integers, on which Math.round changes nothing. *)
(***************************************************************************)

JsAbsent == [t |-> "undefined"]
JsNaN == [t |-> "nan"]
JsNum(n) == [t |-> "number", n |-> n]
JsStr(str) == [t |-> "string", s |-> str]

\* Truthiness of a payload value.
TruthyVal(v) ==
    CASE v.t = "number" -> v.n # 0
      [] v.t = "string" -> v.s # ""
      [] OTHER -> FALSE

\* a || b and a ?? b on payload values.
OrVal(a, b) == IF TruthyVal(a) THEN a ELSE b
Coalesce(a, b) == IF a.t = "undefined" THEN b ELSE a

\* Number(v): a numeric string converts, any other string is NaN.
ToNumber(v) ==
    CASE v.t = "number" -> v
      [] v.t = "string" ->
            (CASE v.s = "" -> JsNum(0) [] v.s = "7" -> JsNum(7) [] OTHER -> JsNaN)
      [] OTHER -> JsNaN

\* `${v}` in a template literal.
Template(v) ==
    CASE v.t = "number" -> ToString(v.n)
      [] v.t = "string" -> v.s
      [] v.t = "nan" -> "NaN"
      [] OTHER -> "undefined"

\* An object as parseInsightData returns it; JSON.parse('null') gives null.
JsObject(fields) == [isNull |-> FALSE, fields |-> fields]
JsNull == [isNull |-> TRUE, fields |-> <<>>]

\* data.name on a parsed object (undefined when the property is missing).
Get(obj, name) == IF name \in DOMAIN obj.fields THEN obj.fields[name] ELSE JsAbsent

\* JSON.parse on the payload strings of the model; any other string throws.
JsonTable ==
    ("{\"merchant_count\":3}" :> JsObject([merchant_count |-> JsNum(3)]))
        @@ ("null" :> JsNull)

\* The payload of an insight: absent, an object, or a string.
parseInsightData(data) ==
    CASE data.kind = "null" -> JsObject(<<>>)
      [] data.kind = "string" ->
            IF data.text = "" THEN JsObject(<<>>)
            ELSE IF data.text \in DOMAIN JsonTable THEN JsonTable[data.text]
            ELSE JsObject(<<>>)
      [] OTHER -> JsObject(data.fields)

\* formatLabel on the family keys of the model.
formatLabel(label) ==
    CASE label = "spending_velocity" -> "Spending Velocity"
      [] label = "weekend_spending" -> "Weekend Spending"
      [] label = "seasonal_pattern" -> "Seasonal Pattern"
      [] label = "category_saturation" -> "Category Saturation"
      [] OTHER -> label

\* title.replace(' is a Favorite', '').trim() on the titles of the model.
stripFavorite(title) ==
    CASE title = "Corner Cafe is a Favorite" -> "Corner Cafe"
      [] title = " is a Favorite" -> ""
      [] OTHER -> title

\* The running state of buildSummaryChips: the chips, usedFamilies, and
\* whether a TypeError was thrown (nothing runs after it).
ChipStart == [chips |-> <<>>, used |-> {}, threw |-> FALSE]

Thrown(st) == [st EXCEPT !.threw = TRUE]

chipCapOpen(st) == TRUE

\* if (chips.length >= 6) return;
chipCap(st) == Len(st.chips) >= 6

addChip(st, label, value, key) ==
    IF ~Truthy(label) \/ ~Truthy(value) THEN st
    ELSE IF chipCap(st) THEN st
    ELSE [st EXCEPT !.chips = Append(@, [label |-> label, value |-> value]),
                    !.used = IF Truthy(key) THEN @ \cup {key} ELSE @]

\* insights.find((i) => i.familyKey === familyKey): its position, 0 if none.
findByFamily(list, familyKey) ==
    LET at == {i \in 1..Len(list) : list[i].familyKey = familyKey}
    IN  IF at = {} THEN 0 ELSE CHOOSE i \in at : \A j \in at : i <= j

ruleFavorite(list, st) ==
    LET n == findByFamily(list, "favorite_merchants")
    IN  IF n = 0 THEN st
        ELSE IF list[n].title = Undefined THEN Thrown(st)
        ELSE addChip(st, "Favorite Merchant",
                     OrElse(stripFavorite(list[n].title), list[n].title),
                     "favorite_merchants")

ruleHabit(list, st) ==
    LET first == findByFamily(list, "habit_frequency")
        n == IF first # 0 THEN first ELSE findByFamily(list, "burst_spending")
    IN  IF n = 0 THEN st
        ELSE addChip(st, "Consistent Habit", list[n].title, list[n].familyKey)

ruleLocal(list, st) ==
    LET n == findByFamily(list, "local_support")
    IN  IF n = 0 THEN st
        ELSE LET data == parseInsightData(list[n].data)
             IN  IF data.isNull THEN Thrown(st)
                 ELSE addChip(st, "Local Impact",
                              Template(ToNumber(Coalesce(Get(data, "local_percentage"), JsNum(0))))
                                  \o "% local spending",
                              "local_support")

ruleConsistency(list, st) ==
    LET n == findByFamily(list, "consistency_score")
    IN  IF n = 0 THEN st
        ELSE LET data == parseInsightData(list[n].data)
             IN  IF data.isNull THEN Thrown(st)
                 ELSE addChip(st, "Consistency Score",
                              Template(ToNumber(OrVal(Get(data, "score"), JsNum(0))))
                                  \o "% stable",
                              "consistency_score")

ruleSaturation(list, st) ==
    LET n == findByFamily(list, "category_saturation")
    IN  IF n = 0 THEN st
        ELSE LET data == parseInsightData(list[n].data)
             IN  IF data.isNull THEN Thrown(st)
                 ELSE IF ~TruthyVal(Get(data, "category")) THEN st
                 ELSE addChip(st, "Top Category",
                              Template(Get(data, "category")) \o ": " \o
                                  Template(ToNumber(OrVal(Get(data, "current_share"), JsNum(0))))
                                  \o "%",
                              "category_saturation")

ruleMerchantSwitch(list, st) ==
    LET n == findByFamily(list, "merchant_switching")
    IN  IF n = 0 THEN st
        ELSE LET data == parseInsightData(list[n].data)
             IN  IF data.isNull THEN Thrown(st)
                 ELSE LET label == OrVal(Get(data, "new_merchant"), Get(data, "newMerchant"))
                          visits == Coalesce(Get(data, "new_visits"), Get(data, "newVisits"))
                      IN  IF ~TruthyVal(label) THEN st
                          ELSE addChip(st, "New Go-To",
                                       IF TruthyVal(visits)
                                       THEN Template(label) \o " . " \o Template(visits) \o " visits"
                                       ELSE Template(label),
                                       "merchant_switching")

\* The three rules of lines 499-524 differ in the family, the metric and the
\* wording only.
ruleCount(list, st, familyKey, metric, label, wording) ==
    LET n == findByFamily(list, familyKey)
    IN  IF n = 0 THEN st
        ELSE LET data == parseInsightData(list[n].data)
             IN  IF data.isNull THEN Thrown(st)
                 ELSE LET count == ToNumber(OrVal(Get(data, metric), JsNum(0)))
                      IN  IF ~TruthyVal(count) THEN st
                          ELSE addChip(st, label, Template(count) \o wording, familyKey)

\* The k-th named rule of lines 451-524.
namedRule(k, list, st) ==
    CASE k = 1 -> ruleFavorite(list, st)
      [] k = 2 -> ruleHabit(list, st)
      [] k = 3 -> ruleLocal(list, st)
      [] k = 4 -> ruleConsistency(list, st)
      [] k = 5 -> ruleSaturation(list, st)
      [] k = 6 -> ruleMerchantSwitch(list, st)
      [] k = 7 -> ruleCount(list, st, "payment_method_optimization",
                            "transaction_count", "Rewards Tip", " big travel buys")
      [] k = 8 -> ruleCount(list, st, "merchant_bundling",
                            "merchant_count", "Bundling Opportunity", " merchants")
      [] OTHER -> ruleCount(list, st, "low_waste_trend",
                            "transaction_count", "Low-Waste Buys", " thrift visits")

\* The named rules in their order; a thrown error ends the function.
namedRules(list) ==
    LET run[k \in 0..9] ==
            IF k = 0 THEN ChipStart
            ELSE LET cur == run[k - 1]
                 IN  IF cur.threw THEN cur ELSE namedRule(k, list, cur)
    IN  run[9]

targetCountNoFloor(n) == Min(6, n)

\* Math.min(6, Math.max(4, chips.length))
targetCount(n) == Min(6, Max(4, n))

\* The same loop without the test on usedFamilies.
genericFillAny(list, st, target) ==
    LET run[k \in 0..Len(list)] ==
            IF k = 0 THEN st
            ELSE LET cur == run[k - 1]
                 IN  IF Len(cur.chips) >= target THEN cur
                     ELSE addChip(cur,
                                  OrElse(list[k].familyName, formatLabel(list[k].familyKey)),
                                  list[k].title, list[k].familyKey)
    IN  run[Len(list)]

\* The insights.forEach of lines 528-536.
genericFill(list, st, target) ==
    LET run[k \in 0..Len(list)] ==
            IF k = 0 THEN st
            ELSE LET cur == run[k - 1]
                 IN  IF Len(cur.chips) >= target THEN cur
                     ELSE IF list[k].familyKey \in cur.used THEN cur
                     ELSE addChip(cur,
                                  OrElse(list[k].familyName, formatLabel(list[k].familyKey)),
                                  list[k].title, list[k].familyKey)
    IN  run[Len(list)]

buildSummaryChips(list) ==
    IF list = <<>> THEN ChipStart
    ELSE LET named == namedRules(list)
             target == targetCount(Len(named.chips))
         IN  IF named.threw THEN named
             ELSE IF Len(named.chips) < target THEN genericFill(list, named, target)
             ELSE named

(***************************************************************************)
(* Specification of the SummaryChipBuilder.  The merged collection lists   *)
(* the families below in this order; each family is absent or present in   *)
(* one of its variants (one or two insights).  The variants cover, for     *)
(* every named rule, a payload the rule accepts and, spread over the       *)
(* rules, every kind of payload it rejects.                                *)
(***************************************************************************)

MaxGenericFamilies == 2

NoData == [kind |-> "null"]
ObjectData(fields) == [kind |-> "object", fields |-> fields]
StringData(text) == [kind |-> "string", text |-> text]

ChipItem(title, data) == [title |-> title, data |-> data]

GenericKeys == <<"spending_velocity", "weekend_spending", "seasonal_pattern">>

\* A family without a named rule: one insight, or one with an empty title
\* followed by one with a title (the first generic family only), or two
\* insights with a title (the second generic family only).
GenericFamily(g) ==
    [key |-> GenericKeys[g],
     name |-> IF g = 2 THEN Undefined ELSE "Generic family",
     variants |->
        <<<<>>, <<ChipItem("Spent fast", NoData)>>>>
            \o (IF g = 1 THEN <<<<ChipItem("", NoData), ChipItem("Spent slowly", NoData)>>>>
                ELSE <<>>)
            \o (IF g = 2 THEN <<<<ChipItem("Spent fast", NoData), ChipItem("Spent again", NoData)>>>>
                ELSE <<>>)]

NamedFamilies ==
    <<[key |-> "favorite_merchants", name |-> "Favorite Merchants",
       variants |-> <<<<>>,
                     <<ChipItem("Corner Cafe is a Favorite", NoData)>>,
                     <<ChipItem(" is a Favorite", NoData)>>,
                     <<ChipItem(Undefined, NoData)>>>>],
      [key |-> "habit_frequency", name |-> "Habit Frequency",
       variants |-> <<<<>>,
                     <<ChipItem("Coffee daily", NoData)>>,
                     <<ChipItem("", NoData)>>>>],
      [key |-> "burst_spending", name |-> "Burst Spending",
       variants |-> <<<<>>, <<ChipItem("Weekend bursts", NoData)>>>>],
      [key |-> "local_support", name |-> "Local Support",
       variants |-> <<<<>>,
                     <<ChipItem("", ObjectData([local_percentage |-> JsNum(42)]))>>,
                     <<ChipItem("Local shops", StringData("null"))>>>>],
      [key |-> "consistency_score", name |-> "Consistency",
       variants |-> <<<<>>, <<ChipItem("Steady", ObjectData([score |-> JsNum(88)]))>>>>],
      [key |-> "category_saturation", name |-> Undefined,
       variants |-> <<<<>>,
                     <<ChipItem("Dining dominates",
                                ObjectData([category |-> JsStr("Dining"),
                                            current_share |-> JsNum(40)]))>>,
                     <<ChipItem("Dining dominates", ObjectData(<<>>))>>>>],
      [key |-> "merchant_switching", name |-> "Merchant Switching",
       variants |-> <<<<>>,
                     <<ChipItem("New cafe",
                                ObjectData([newMerchant |-> JsStr("Bean Bar"),
                                            new_visits |-> JsNum(3)]))>>>>],
      [key |-> "payment_method_optimization", name |-> "Payment Method",
       variants |-> <<<<>>,
                     <<ChipItem("Use a travel card",
                                ObjectData([transaction_count |-> JsNum(2)]))>>,
                     <<ChipItem("Use a travel card",
                                ObjectData([transaction_count |-> JsStr("many")]))>>>>],
      [key |-> "merchant_bundling", name |-> "Merchant Bundling",
       variants |-> <<<<>>,
                     <<ChipItem("Bundle streaming", StringData("{\"merchant_count\":3}"))>>,
                     <<ChipItem("Bundle streaming", StringData("{merchant_count"))>>>>],
      [key |-> "low_waste_trend", name |-> "Low Waste",
       variants |-> <<<<>>,
                     <<ChipItem("Thrift finds",
                                ObjectData([transaction_count |-> JsStr("7")]))>>>>]>>

\* The insights of a family in each of its variants (ids are given last).
FamilyChoices(family) ==
    {[k \in 1..Len(v) |->
        [id |-> 0, title |-> v[k].title, data |-> v[k].data,
         familyKey |-> family.key, familyName |-> family.name]] :
     v \in Range(family.variants)}

\* The insights of the generic families 2..g, in every choice of variants.
RECURSIVE OtherGenerics(_)
OtherGenerics(g) ==
    IF g < 2 THEN {<<>>}
    ELSE {rest \o last : rest \in OtherGenerics(g - 1),
                         last \in FamilyChoices(GenericFamily(g))}

\* The id of an insight is its position in the collection.
WithIds(list) == [k \in 1..Len(list) |-> [list[k] EXCEPT !.id = k]]

\* The collection lists a generic family first, the named ones in the order
\* of NamedFamilies, then the other generic families.
InitChips ==
    /\ pc = "chips"
    /\ \E g1 \in FamilyChoices(GenericFamily(1)),
          n1 \in FamilyChoices(NamedFamilies[1]), n2 \in FamilyChoices(NamedFamilies[2]),
          n3 \in FamilyChoices(NamedFamilies[3]), n4 \in FamilyChoices(NamedFamilies[4]),
          n5 \in FamilyChoices(NamedFamilies[5]), n6 \in FamilyChoices(NamedFamilies[6]),
          n7 \in FamilyChoices(NamedFamilies[7]), n8 \in FamilyChoices(NamedFamilies[8]),
          n9 \in FamilyChoices(NamedFamilies[9]), n10 \in FamilyChoices(NamedFamilies[10]),
          others \in OtherGenerics(MaxGenericFamilies) :
          chipInput = WithIds(g1 \o n1 \o n2 \o n3 \o n4 \o n5 \o n6 \o n7 \o n8
                                 \o n9 \o n10 \o others)
    /\ chips = Idle
    /\ cmpArgs = Idle /\ cmpOut = Idle
    /\ domains = Idle /\ merged = Idle
    /\ insights = Idle /\ limit = 0 /\ selection = Idle
    /\ sectionInput = Idle /\ sections = Idle
    /\ transactions = Idle /\ currentBalance = Idle /\ projection = Idle
    /\ now = Idle /\ replay = Idle /\ shuffled = Idle /\ AppIdle

BuildChips ==
    /\ pc = "chips"
    /\ chips' = buildSummaryChips(chipInput)
    /\ pc' = "chipsBuilt"
    /\ UNCHANGED <<cmpArgs, cmpOut, domains, merged, insights, limit, selection,
                   sectionInput, sections, chipInput,
                   transactions, currentBalance, projection, now, replay, shuffled, appVars>>

NextChips == BuildChips

SpecChips == InitChips /\ [][NextChips]_vars

\* The families of a collection that have an insight with a non-empty title.
EligibleFamilies(list) ==
    {list[k].familyKey : k \in {i \in DOMAIN list : Truthy(list[i].title)}}

C9_WitnessCap ==
    /\ pc = "chipsBuilt" /\ ~chips.threw
    /\ Len(chips.chips) = 6
    /\ Cardinality(EligibleFamilies(chipInput)) >= 8
    /\ findByFamily(chipInput, "low_waste_trend") # 0
    /\ findByFamily(chipInput, "merchant_bundling") # 0

StatedGenerics(list, consumed) ==
    LET first == {k \in DOMAIN list :
                    /\ Truthy(list[k].title)
                    /\ list[k].familyKey \notin consumed
                    /\ \A j \in 1..(k - 1) :
                          list[j].familyKey = list[k].familyKey => ~Truthy(list[j].title)}
        chipOf(k) == [label |-> OrElse(list[k].familyName, formatLabel(list[k].familyKey)),
                      value |-> list[k].title,
                      key |-> list[k].familyKey]
        acc[k \in 0..Len(list)] ==
            IF k = 0 THEN <<>>
            ELSE IF k \in first THEN Append(acc[k - 1], chipOf(k)) ELSE acc[k - 1]
    IN  acc[Len(list)]

C22_WitnessOncePerFamily ==
    /\ pc = "chipsBuilt" /\ ~chips.threw
    /\ Len(chips.chips) < 4
    /\ \E k \in DOMAIN chipInput :
          /\ chipInput[k].title = "Spent again"
          /\ chipInput[k].familyKey \in chips.used

\* The labels of the chips of a result.
LabelsOf(r) == {r.chips[k].label : k \in DOMAIN r.chips}

\* The first insight of a family in the collection lacks what the family's
\* named rule needs: the title, an object payload, or a numeric metric.
Malformed(list, familyKey, metric) ==
    LET n == findByFamily(list, familyKey)
    IN  /\ n # 0
        /\ \/ list[n].title = Undefined
           \/ parseInsightData(list[n].data).isNull
           \/ (metric # "" /\ ~parseInsightData(list[n].data).isNull
                 /\ ToNumber(OrVal(Get(parseInsightData(list[n].data), metric), JsNum(0)))
                       \notin {JsNum(x) : x \in 1..100})

\* C23: when an insight matched by a named rule has a missing or malformed
\* field the rule needs, the rule produces no chip and buildSummaryChips
\* returns normally: it raises no error for any insight payload.
C23_FailsSoft ==
    pc = "chipsBuilt" =>
        /\ ~chips.threw
        /\ Malformed(chipInput, "favorite_merchants", "")
                => "Favorite Merchant" \notin LabelsOf(chips)
        /\ Malformed(chipInput, "local_support", "")
                => "Local Impact" \notin LabelsOf(chips)
        /\ Malformed(chipInput, "payment_method_optimization", "transaction_count")
                => "Rewards Tip" \notin LabelsOf(chips)
        /\ Malformed(chipInput, "merchant_bundling", "merchant_count")
                => "Bundling Opportunity" \notin LabelsOf(chips)

(***************************************************************************)
(* ProjectionEngine (Dashboard.jsx): bucketing, windowing and the variant  *)
(* of the result.                                                          *)
(***************************************************************************)

\* A JavaScript number of the projection is held in hundredths: Fixed(n) is
\* the number n.  Sums and differences are exact; a product, a quotient and a
\* square root are cut to the hundredth.
Scale == 100

Fixed(n) == n * Scale

\* a * b and a / b on numbers held in hundredths.
Times(a, b) == (a * b) \div Scale
Over(a, b) == (a * Scale) \div b

\* values.reduce((sum, value) => sum + value, 0)
Sum(values) ==
    LET acc[k \in 0..Len(values)] == IF k = 0 THEN 0 ELSE acc[k - 1] + values[k]
    IN  acc[Len(values)]

\* The largest r in lo..hi with r * r <= x.
RECURSIVE rootBetween(_, _, _)
rootBetween(x, lo, hi) ==
    IF lo = hi THEN lo
    ELSE LET mid == (lo + hi + 1) \div 2
         IN  IF mid * mid <= x THEN rootBetween(x, mid, hi)
             ELSE rootBetween(x, lo, mid - 1)

\* Math.sqrt on a number held in hundredths.
sqrt(x) == rootBetween(x * Scale, 0, 46340)

\* average: values.length divides an exact sum.
average(values) ==
    IF values = <<>> THEN 0 ELSE Sum(values) \div Len(values)

\* The sample standard deviation (n - 1 in the denominator).
stddevSample(values) ==
    IF Len(values) < 2 THEN 0
    ELSE LET avg == average(values)
         IN  sqrt(Sum([k \in 1..Len(values) |->
                          Times(values[k] - avg, values[k] - avg)])
                    \div (Len(values) - 1))

\* stddev: the population standard deviation.
stddev(values) ==
    IF Len(values) < 2 THEN 0
    ELSE LET avg == average(values)
         IN  sqrt(average([k \in 1..Len(values) |->
                              Times(values[k] - avg, values[k] - avg)]))

MONTH_NAMES ==
    <<"Jan", "Feb", "Mar", "Apr", "May", "Jun",
      "Jul", "Aug", "Sep", "Oct", "Nov", "Dec">>

\* A Date on the first of a UTC month is held as the count of months since
\* year 0; Date.UTC(year, month + i, 1) carries into the year.
monthKeyToDate(key) == key[1] * 12 + (key[2] - 1)

getMonthLabel(date, projected) ==
    IF projected THEN MONTH_NAMES[(date % 12) + 1] \o " (Projected)"
    ELSE MONTH_NAMES[(date % 12) + 1]

\* null in a field that otherwise holds a number.
Null == [t |-> "null"]

MAX_HISTORY == 6

\* new Date(value) on the date strings of the model: the UTC year and month
\* of the instant.  The third one lies in February in UTC.  Every other
\* string, and a missing date (undefined), gives an Invalid Date, whose
\* getTime() is NaN.  (A date given as null would convert to the epoch; the
\* ledgers of the model carry ISO date strings or no date.)
UtcTable ==
    ("2023-08-15" :> [year |-> 2023, month |-> 8]) @@
    ("2023-09-15" :> [year |-> 2023, month |-> 9]) @@
    ("2023-10-15" :> [year |-> 2023, month |-> 10]) @@
    ("2023-11-15" :> [year |-> 2023, month |-> 11]) @@
    ("2023-12-15" :> [year |-> 2023, month |-> 12]) @@
    ("2024-01-15" :> [year |-> 2024, month |-> 1]) @@
    ("2024-01-31T23:30:00-05:00" :> [year |-> 2024, month |-> 2]) @@
    ("2024-02-10" :> [year |-> 2024, month |-> 2]) @@
    ("2024-03-05" :> [year |-> 2024, month |-> 3])

dateIsInvalidNever(value) == FALSE

\* Number.isNaN(date.getTime())
dateIsInvalid(value) == value \notin DOMAIN UtcTable

\* toMonthKey: the key `YYYY-MM', held as the pair it is built from.  For
\* four-digit years, which every date of the model has, the order of the key
\* strings is the order of these pairs.  The key of an Invalid Date is
\* `NaN-NaN', held as <<0, 0>>.
toMonthKey(value) ==
    IF value \in DOMAIN UtcTable
    THEN <<UtcTable[value].year, UtcTable[value].month>>
    ELSE <<0, 0>>

KeyBefore(a, b) == a[1] < b[1] \/ (a[1] = b[1] /\ a[2] < b[2])

\* formatCategoryLabel on the category labels of the model.
formatCategoryLabel(label) ==
    CASE ~Truthy(label) -> "General"
      [] label = "FOOD_AND_DRINK" -> "Food And Drink"
      [] label = "TRANSPORTATION" -> "Transportation"
      [] label = "Other" -> "Other"
      [] OTHER -> label

\* bucket.categories[category] = (bucket.categories[category] || 0) + amount:
\* the object as the sequence of its entries, in the order of insertion.
addCategory(categories, category, amount) ==
    IF \E i \in 1..Len(categories) : categories[i].name = category
    THEN [i \in 1..Len(categories) |->
            IF categories[i].name = category
            THEN [categories[i] EXCEPT !.value = @ + amount]
            ELSE categories[i]]
    ELSE Append(categories, [name |-> category, value |-> amount])

\* Number(transaction.amount) || 0 and the two branches of lines 287-295.
bucketStep(buckets, transaction) ==
    IF dateIsInvalid(transaction.date) THEN buckets
    ELSE LET key == toMonthKey(transaction.date)
             at == {i \in 1..Len(buckets) : buckets[i].key = key}
             withKey == IF at = {}
                        THEN Append(buckets, [key |-> key, income |-> 0, spending |-> 0,
                                              categories |-> <<>>,
                                              incomeEvents |-> <<>>, spendingEvents |-> <<>>])
                        ELSE buckets
             i == CHOOSE i \in 1..Len(withKey) : withKey[i].key = key
             amount == Fixed(transaction.amount)
             category == formatCategoryLabel(OrElse(transaction.category_primary, "Other"))
         IN  IF amount < 0
             THEN [withKey EXCEPT ![i].income = @ + (0 - amount),
                                  ![i].incomeEvents = Append(@, 0 - amount)]
             ELSE [withKey EXCEPT ![i].spending = @ + amount,
                                  ![i].spendingEvents = Append(@, amount),
                                  ![i].categories = addCategory(@, category, amount)]

\* The Map monthBuckets after the forEach, its entries in insertion order.
monthBuckets(ledger) ==
    LET acc[k \in 0..Len(ledger)] ==
            IF k = 0 THEN <<>> ELSE bucketStep(acc[k - 1], ledger[k])
    IN  acc[Len(ledger)]

sortByKeyAsInserted(buckets) == buckets

\* Array.from(monthBuckets.keys()).sort(), carrying the buckets along.
sortByKey(buckets) ==
    LET run[k \in 0..Len(buckets)] ==
            IF k = 0 THEN <<>>
            ELSE LET sorted == run[k - 1]
                 IN  Place(sorted, buckets[k],
                           {i \in 1..Len(sorted) : KeyBefore(buckets[k].key, sorted[i].key)})
    IN  run[Len(buckets)]

\* .slice(-n)
TakeLast(list, n) == SubSeq(list, Max(1, Len(list) - n + 1), Len(list))

\* Math.round((value / total) * 100) on amounts that are not negative.
percentOf(value, total) == (200 * value + total) \div (2 * total)

\* Object.entries(categories).sort((a, b) => b[1] - a[1]).slice(0, 2)
topTwo(categories) ==
    LET run[k \in 0..Len(categories)] ==
            IF k = 0 THEN <<>>
            ELSE LET sorted == run[k - 1]
                     x == categories[k]
                 IN  Place(sorted, x, {i \in 1..Len(sorted) : x.value > sorted[i].value})
    IN  Take(run[Len(categories)], 2)

\* Lines 304-308: the labels `name: percent%' of the two largest categories.
topCategories(bucket) ==
    LET total == IF bucket.spending # 0 THEN bucket.spending ELSE 1
        top == topTwo(bucket.categories)
    IN  [k \in 1..Len(top) |->
            top[k].name \o ": " \o ToString(percentOf(top[k].value, total)) \o "%"]

\* monthlyData: the buckets of the selected keys with their net.
monthlyData(ledger) ==
    LET selected == TakeLast(sortByKey(monthBuckets(ledger)), MAX_HISTORY)
    IN  [k \in 1..Len(selected) |->
            [key |-> selected[k].key,
             date |-> monthKeyToDate(selected[k].key),
             label |-> getMonthLabel(monthKeyToDate(selected[k].key), FALSE),
             income |-> selected[k].income,
             spending |-> selected[k].spending,
             net |-> selected[k].income - selected[k].spending,
             categories |-> selected[k].categories,
             topCategories |-> topCategories(selected[k]),
             incomeEvents |-> selected[k].incomeEvents,
             spendingEvents |-> selected[k].spendingEvents]]

tooFewMonthsOffByOne(months) == Len(months) < 2

\* if (monthlyData.length < 3)
tooFewMonths(months) == Len(months) < 3

FUTURE_MONTHS == 4

\* monthlyData.flatMap((m) => m.incomeEvents)
incomeEventsOf(months) ==
    LET acc[k \in 0..Len(months)] ==
            IF k = 0 THEN <<>> ELSE acc[k - 1] \o months[k].incomeEvents
    IN  acc[Len(months)]

\* Lines 335-343: the label of the ratio incomeStd / avgIncome.
confidenceOf(avgIncome, incomeStd) ==
    IF avgIncome > 0
    THEN LET varianceRatio == Over(incomeStd, avgIncome)
         IN  IF varianceRatio < 20 THEN "high"
             ELSE IF varianceRatio < 45 THEN "medium"
             ELSE "low"
    ELSE "low"

nonzeroAll(values) == values

\* .filter((value) => value > 0)
nonzero(values) == Filter(values, {v \in Range(values) : v > 0})

\* Lines 328-343: the statistics of the windowed months.
projectionStats(months) ==
    LET incomes == [k \in 1..Len(months) |-> months[k].income]
        spendings == [k \in 1..Len(months) |-> months[k].spending]
        avgIncome == average(nonzero(incomes))
        avgSpending == average(spendings)
        spendingStd == stddev(spendings)
        incomeStd == stddev(incomeEventsOf(months))
    IN  [avgIncome |-> avgIncome,
         avgSpending |-> avgSpending,
         spendingStd |-> spendingStd,
         netChange |-> avgIncome - avgSpending,
         volatility |-> IF spendingStd # 0 THEN spendingStd ELSE Times(avgSpending, 15),
         incomeStd |-> incomeStd,
         incomeConfidence |-> confidenceOf(avgIncome, incomeStd)]

\* .sort((a, b) => a.date - b.date) and .sort((a, b) => b.date - a.date)
sortByDate(entries, descending) ==
    LET run[k \in 0..Len(entries)] ==
            IF k = 0 THEN <<>>
            ELSE LET sorted == run[k - 1]
                     x == entries[k]
                 IN  Place(sorted, x,
                           {i \in 1..Len(sorted) :
                               IF descending THEN x.date > sorted[i].date
                               ELSE x.date < sorted[i].date})
    IN  run[Len(entries)]

\* .reverse()
Reverse(list) == [k \in 1..Len(list) |-> list[Len(list) + 1 - k]]

\* Number(currentBalance) || 0
balanceOrZero(balance) ==
    LET number == ToNumber(balance)
    IN  IF number.t = "number" THEN Fixed(number.n) ELSE 0

stepBackAdds(runningBalance, entry) == runningBalance + entry.net

\* runningBalance -= entry.net
stepBack(runningBalance, entry) == runningBalance - entry.net

\* Lines 345-359: the balance of every windowed month, walking back from the
\* current balance; the entries come out in chronological order.
historicalLine(months, balance) ==
    LET historical == sortByDate(months, FALSE)
        reversed == sortByDate(historical, TRUE)
        walk[k \in 0..Len(reversed)] ==
            IF k = 0 THEN [line |-> <<>>, runningBalance |-> balanceOrZero(balance)]
            ELSE LET cur == walk[k - 1]
                     entry == reversed[k]
                 IN  [line |-> Append(cur.line,
                                      [entry |-> entry, balance |-> cur.runningBalance]),
                      runningBalance |-> stepBack(cur.runningBalance, entry)]
    IN  Reverse(walk[Len(reversed)].line)

upperNextFlat(upperBalance, stats) == upperBalance + stats.netChange

\* upperBalance += projectedNet + volatility
upperNext(upperBalance, stats) == upperBalance + (stats.netChange + stats.volatility)

\* Lines 365-388: the forecast months after the last historical one.
projections(lastBalance, lastDate, stats) ==
    LET run[i \in 0..FUTURE_MONTHS] ==
            IF i = 0
            THEN [list |-> <<>>, projectedBalance |-> lastBalance,
                  upperBalance |-> lastBalance, lowerBalance |-> lastBalance]
            ELSE LET cur == run[i - 1]
                     projectedBalance == cur.projectedBalance + stats.netChange
                     upperBalance == upperNext(cur.upperBalance, stats)
                     lowerBalance == cur.lowerBalance + (stats.netChange - stats.volatility)
                 IN  [list |-> Append(cur.list,
                                      [label |-> getMonthLabel(lastDate + i, TRUE),
                                       date |-> lastDate + i,
                                       projectedIncome |-> stats.avgIncome,
                                       projectedSpending |-> stats.avgSpending,
                                       projectedNet |-> stats.netChange,
                                       projectedBalance |-> projectedBalance,
                                       upperBalance |-> upperBalance,
                                       lowerBalance |-> lowerBalance]),
                      projectedBalance |-> projectedBalance,
                      upperBalance |-> upperBalance,
                      lowerBalance |-> lowerBalance]
    IN  run[FUTURE_MONTHS].list

\* The same entry with a threshold of one deviation.
historicalPointLoose(line, stats) ==
    [label |-> line.entry.label,
     date |-> line.entry.date,
     actualBalance |-> JsNum(line.balance),
     projectedBalance |-> Null,
     lowerBound |-> line.balance,
     upperBound |-> line.balance,
     coneHeight |-> 0,
     isProjected |-> FALSE,
     income |-> line.entry.income,
     spending |-> line.entry.spending,
     net |-> line.entry.net,
     topCategories |-> line.entry.topCategories,
     anomaly |-> /\ stats.spendingStd > 0
                 /\ line.entry.spending > stats.avgSpending + Times(stats.spendingStd, 100)]

\* Lines 391-405: a historical entry of the timeline.
historicalPoint(line, stats) ==
    [label |-> line.entry.label,
     date |-> line.entry.date,
     actualBalance |-> JsNum(line.balance),
     projectedBalance |-> Null,
     lowerBound |-> line.balance,
     upperBound |-> line.balance,
     coneHeight |-> 0,
     isProjected |-> FALSE,
     income |-> line.entry.income,
     spending |-> line.entry.spending,
     net |-> line.entry.net,
     topCategories |-> line.entry.topCategories,
     anomaly |-> /\ stats.spendingStd > 0
                 /\ line.entry.spending > stats.avgSpending + Times(stats.spendingStd, 180)]

\* The same entry with the height of the cone left at 0.
forecastPointFlat(entry, stats) ==
    [label |-> entry.label,
     date |-> entry.date,
     actualBalance |-> Null,
     projectedBalance |-> JsNum(entry.projectedBalance),
     lowerBound |-> entry.lowerBalance,
     coneHeight |-> 0,
     isProjected |-> TRUE,
     projectedIncome |-> entry.projectedIncome,
     projectedSpending |-> entry.projectedSpending,
     projectedNet |-> entry.projectedNet,
     incomeConfidence |-> stats.incomeConfidence,
     upperBound |-> entry.upperBalance]

\* Lines 406-419: a forecast entry of the timeline.
forecastPoint(entry, stats) ==
    [label |-> entry.label,
     date |-> entry.date,
     actualBalance |-> Null,
     projectedBalance |-> JsNum(entry.projectedBalance),
     lowerBound |-> entry.lowerBalance,
     coneHeight |-> Max(entry.upperBalance - entry.lowerBalance, 0),
     isProjected |-> TRUE,
     projectedIncome |-> entry.projectedIncome,
     projectedSpending |-> entry.projectedSpending,
     projectedNet |-> entry.projectedNet,
     incomeConfidence |-> stats.incomeConfidence,
     upperBound |-> entry.upperBalance]

\* Lines 361-362: (historicalLine[last]?.balance ?? Number(currentBalance)) || 0
lastHistoricalBalance(line, balance) ==
    IF line = <<>> THEN balanceOrZero(balance) ELSE line[Len(line)].balance

lastDateFromClock(line) == now

\* Line 363: historicalLine[last]?.date || new Date()
lastDate(line) == IF line = <<>> THEN now ELSE line[Len(line)].entry.date

\* Lines 422-430: the two largest categories of the latest month.
categoryEntries(months) ==
    LET latestMonth == months[Len(months)]
        top == topTwo(latestMonth.categories)
    IN  [k \in 1..Len(top) |->
            [label |-> top[k].name,
             percent |-> IF latestMonth.spending # 0
                         THEN percentOf(top[k].value, latestMonth.spending) ELSE 0,
             amount |-> top[k].value]]

\* Lines 432-442: the risk sentences, in the order they are pushed.
riskIndicators(months, future, incomeConfidence) ==
    LET negativeMonths == Cardinality({k \in 1..Len(months) : months[k].net < 0})
    IN  (IF negativeMonths >= 2
         THEN <<"Spending exceeded income in most recent months.">> ELSE <<>>)
        \o (IF future # <<>> /\ future[Len(future)].lowerBalance < 0
            THEN <<"Trajectory could dip below zero based on downside scenario.">>
            ELSE <<>>)
        \o (IF incomeConfidence = "low"
            THEN <<"Income pattern is inconsistent - projection confidence is low.">>
            ELSE <<>>)

\* Lines 328-463: the populated projection of three or more windowed months
\* (without the sentence outlookSummary and the caption windowLabel).
populated(months, balance) ==
    LET stats == projectionStats(months)
        line == historicalLine(months, balance)
        future == projections(lastHistoricalBalance(line, balance), lastDate(line), stats)
    IN  [hasData |-> TRUE,
         reason |-> Undefined,
         months |-> months,
         timeline |-> [k \in 1..Len(line) |-> historicalPoint(line[k], stats)]
                        \o [k \in 1..Len(future) |-> forecastPoint(future[k], stats)],
         riskIndicators |-> riskIndicators(months, future, stats.incomeConfidence),
         categoryImpacts |-> categoryEntries(months),
         incomeConfidence |-> stats.incomeConfidence,
         expectedIncome |-> stats.avgIncome,
         expectedSpending |-> stats.avgSpending,
         projectedNet |-> stats.netChange]

\* The result of buildFinancialProjection: the variant, and for a populated
\* projection the fields computed from the windowed months.
buildFinancialProjection(ledger, balance) ==
    IF ledger = <<>> \/ balance.t = "undefined"
    THEN [hasData |-> FALSE, reason |-> "collecting"]
    ELSE LET months == monthlyData(ledger)
         IN  IF tooFewMonths(months)
             THEN [hasData |-> FALSE, reason |-> "insufficient"]
             ELSE populated(months, balance)

(***************************************************************************)
(* Specification of the ProjectionEngine: a ledger of at most MaxLedger    *)
(* transactions in any order, and a balance that may be null.              *)
(***************************************************************************)

MaxLedger == 4

LedgerKinds ==
    {[date |-> "2023-12-15", amount |-> 0 - 200, category_primary |-> "INCOME"],
     [date |-> "2024-01-15", amount |-> 150, category_primary |-> "FOOD_AND_DRINK"],
     [date |-> "2024-01-31T23:30:00-05:00", amount |-> 0 - 200,
      category_primary |-> "INCOME"],
     [date |-> "2024-02-10", amount |-> 170, category_primary |-> "TRANSPORTATION"],
     [date |-> "2024-03-05", amount |-> 160, category_primary |-> Undefined],
     [date |-> "not a date", amount |-> 150, category_primary |-> "FOOD_AND_DRINK"],
     [date |-> Undefined, amount |-> 0 - 200, category_primary |-> "INCOME"]}

Balances == {JsAbsent, JsNum(0), JsNum(500)}

InitProjection ==
    /\ pc = "project"
    /\ \E n \in 0..MaxLedger : transactions \in [1..n -> LedgerKinds]
    /\ currentBalance \in Balances
    /\ projection = Idle /\ now = Idle /\ replay = Idle /\ shuffled = Idle /\ AppIdle
    /\ cmpArgs = Idle /\ cmpOut = Idle
    /\ domains = Idle /\ merged = Idle
    /\ insights = Idle /\ limit = 0 /\ selection = Idle
    /\ sectionInput = Idle /\ sections = Idle
    /\ chipInput = Idle /\ chips = Idle

Project ==
    /\ pc = "project"
    /\ projection' = buildFinancialProjection(transactions, currentBalance)
    /\ pc' = "projected"
    /\ UNCHANGED <<cmpArgs, cmpOut, domains, merged, insights, limit, selection,
                   sectionInput, sections, chipInput, chips,
                   transactions, currentBalance, now, replay, shuffled, appVars>>

NextProjection == Project

SpecProjection == InitProjection /\ [][NextProjection]_vars

(***************************************************************************)
(* Specification of the statistics of the ProjectionEngine: a ledger of    *)
(* MaxMonths consecutive months, every month with one of the profiles      *)
(* below (the amounts of its transactions, none for a month without any).  *)
(* The income events of the profiles are spread around 200 by 10, 30 and   *)
(* 60 percent; a month can hold one or two of them.                        *)
(***************************************************************************)

MaxMonths == 3

MonthDates == <<"2023-12-15", "2024-01-15", "2024-02-10", "2024-03-05">>

MonthProfiles ==
    {<<>>,
     <<150>>,
     <<0 - 200, 150>>,
     <<170, 0 - 200>>,
     <<0 - 200, 160>>,
     <<0 - 180, 150>>,
     <<0 - 220, 160>>,
     <<0 - 140, 0 - 260, 150>>,
     <<0 - 140, 170>>,
     <<0 - 260>>,
     <<0 - 80, 150, 20>>,
     <<0 - 320, 0 - 80>>}

\* The category of a transaction of a profile goes by its amount.
ProfileCategory(amount) ==
    CASE amount < 0 -> "INCOME"
      [] amount = 150 -> "FOOD_AND_DRINK"
      [] amount = 160 -> Undefined
      [] OTHER -> "TRANSPORTATION"

\* The transactions of month j with the amounts of a profile.
MonthLedger(j, profile) ==
    [k \in 1..Len(profile) |->
        [date |-> MonthDates[j], amount |-> profile[k],
         category_primary |-> ProfileCategory(profile[k])]]

RECURSIVE ProfileLedgers(_)
ProfileLedgers(j) ==
    IF j = 0 THEN {<<>>}
    ELSE {rest \o MonthLedger(j, profile) :
            rest \in ProfileLedgers(j - 1), profile \in MonthProfiles}

InitStatistics ==
    /\ pc = "project"
    /\ transactions \in ProfileLedgers(MaxMonths)
    /\ currentBalance \in {JsNum(500), JsNum(0 - 40)}
    /\ projection = Idle /\ now = Idle /\ replay = Idle /\ shuffled = Idle /\ AppIdle
    /\ cmpArgs = Idle /\ cmpOut = Idle
    /\ domains = Idle /\ merged = Idle
    /\ insights = Idle /\ limit = 0 /\ selection = Idle
    /\ sectionInput = Idle /\ sections = Idle
    /\ chipInput = Idle /\ chips = Idle

NextStatistics == Project

SpecStatistics == InitStatistics /\ [][NextStatistics]_vars

(***************************************************************************)
(* Specification of a recomputation: buildFinancialProjection is called,   *)
(* the host clock moves on, and it is called again with the same ledger    *)
(* and balance (the useMemo of lines 552-555 after a remount).             *)
(***************************************************************************)

\* April 2024 on the host clock.
ClockStart == 24291

MaxTicks == 1

InitReplay ==
    /\ pc = "project"
    /\ transactions \in ProfileLedgers(MaxMonths)
    /\ currentBalance \in Balances
    /\ projection = Idle /\ replay = Idle /\ shuffled = Idle /\ AppIdle
    /\ now = ClockStart
    /\ cmpArgs = Idle /\ cmpOut = Idle
    /\ domains = Idle /\ merged = Idle
    /\ insights = Idle /\ limit = 0 /\ selection = Idle
    /\ sectionInput = Idle /\ sections = Idle
    /\ chipInput = Idle /\ chips = Idle

Tick ==
    /\ pc = "projected"
    /\ now < ClockStart + MaxTicks
    /\ now' = now + 1
    /\ UNCHANGED <<pc, cmpArgs, cmpOut, domains, merged, insights, limit, selection,
                   sectionInput, sections, chipInput, chips,
                   transactions, currentBalance, projection, replay, shuffled, appVars>>

ProjectAgain ==
    /\ pc = "projected"
    /\ replay' = buildFinancialProjection(transactions, currentBalance)
    /\ shuffled' = transactions
    /\ pc' = "replayed"
    /\ UNCHANGED <<cmpArgs, cmpOut, domains, merged, insights, limit, selection,
                   sectionInput, sections, chipInput, chips,
                   transactions, currentBalance, projection, now, appVars>>

NextReplay == Project \/ Tick \/ ProjectAgain

SpecReplay == InitReplay /\ [][NextReplay]_vars

\* The UTC calendar months a ledger covers.
StatedMonths(ledger) ==
    {m \in {<<2023, 12>>, <<2024, 1>>, <<2024, 2>>, <<2024, 3>>} :
        \E k \in DOMAIN ledger :
            \/ ledger[k].date = "2023-12-15" /\ m = <<2023, 12>>
            \/ ledger[k].date = "2024-01-15" /\ m = <<2024, 1>>
            \/ ledger[k].date \in {"2024-01-31T23:30:00-05:00", "2024-02-10"} /\ m = <<2024, 2>>
            \/ ledger[k].date = "2024-03-05" /\ m = <<2024, 3>>}

\* C10: the result is {hasData: false, reason: 'collecting'} when the
\* balance is null or the ledger is empty; otherwise {hasData: false,
\* reason: 'insufficient'} when the ledger covers fewer than 3 distinct UTC
\* calendar months; otherwise a result with hasData true.  A result is
\* returned in every case.
C10_ProjectionVariant ==
    pc = "projected" =>
        IF currentBalance = JsAbsent \/ transactions = <<>>
        THEN ~projection.hasData /\ projection.reason = "collecting"
        ELSE IF Cardinality(StatedMonths(transactions)) < 3
        THEN ~projection.hasData /\ projection.reason = "insufficient"
        ELSE projection.hasData

\* Exactly three months, one of them reached only through a date that is in
\* January locally and in February in UTC, beside a record without a date.
C10_Witness ==
    /\ pc = "projected"
    /\ Cardinality(StatedMonths(transactions)) = 3
    /\ \E k \in DOMAIN transactions : transactions[k].date = "2024-01-31T23:30:00-05:00"
    /\ \E k \in DOMAIN transactions : transactions[k].date = Undefined
    /\ \A k \in DOMAIN transactions : transactions[k].date # "2024-02-10"
    /\ currentBalance = JsNum(0)
    /\ projection.hasData

\* Exactly two months in a ledger of four records: insufficient.
C10_WitnessTwoMonths ==
    /\ pc = "projected"
    /\ Len(transactions) = 4
    /\ Cardinality(StatedMonths(transactions)) = 2
    /\ currentBalance = JsNum(500)
    /\ ~projection.hasData /\ projection.reason = "insufficient"

\* The UTC calendar month of a transaction, <<0, 0>> without a parseable date.
StatedMonth(transaction) ==
    CASE transaction.date = "2023-08-15" -> <<2023, 8>>
      [] transaction.date = "2023-09-15" -> <<2023, 9>>
      [] transaction.date = "2023-10-15" -> <<2023, 10>>
      [] transaction.date = "2023-11-15" -> <<2023, 11>>
      [] transaction.date = "2023-12-15" -> <<2023, 12>>
      [] transaction.date = "2024-01-15" -> <<2024, 1>>
      [] transaction.date \in {"2024-01-31T23:30:00-05:00", "2024-02-10"} -> <<2024, 2>>
      [] transaction.date = "2024-03-05" -> <<2024, 3>>
      [] OTHER -> <<0, 0>>

\* Income minus spending of a month: a negative amount is income of its
\* absolute value, any other amount is spending.
StatedNet(ledger, m) ==
    LET acc[k \in 0..Len(ledger)] ==
            IF k = 0 THEN 0
            ELSE IF StatedMonth(ledger[k]) = m THEN acc[k - 1] - ledger[k].amount
            ELSE acc[k - 1]
    IN  Fixed(acc[Len(ledger)])

\* The historical entries of a timeline, in its order.
Historical(timeline) == Filter(timeline, {e \in Range(timeline) : ~e.isProjected})

\* C11: in a populated projection the historical entries are in
\* chronological order, each carries the net (income minus spending) of its
\* month, the most recent one has the current balance as actualBalance, and
\* every earlier one has the actualBalance of its successor minus the
\* successor's net.
C11_BalanceWalkBack ==
    (pc = "projected" /\ projection.hasData) =>
        LET h == Historical(projection.timeline)
            n == Len(h)
        IN  /\ n >= 3
            /\ h[n].actualBalance = JsNum(Fixed(currentBalance.n))
            /\ \A k \in 1..n :
                    \E m \in StatedMonths(transactions) :
                        /\ monthKeyToDate(m) = h[k].date
                        /\ h[k].net = StatedNet(transactions, m)
            /\ \A k \in 1..(n - 1) :
                    /\ h[k].date < h[k + 1].date
                    /\ h[k].actualBalance.n = h[k + 1].actualBalance.n - h[k + 1].net

\* Three months with a gain and a loss, entered out of order: the balances
\* before the current one differ from it and from each other.
C11_Witness ==
    /\ pc = "projected"
    /\ projection.hasData
    /\ currentBalance = JsNum(500)
    /\ transactions[1].date = "2024-03-05"
    /\ LET h == Historical(projection.timeline)
       IN  /\ Len(h) = 3
           /\ h[3].net < 0 /\ h[2].net > 0
           /\ h[1].actualBalance.n # h[2].actualBalance.n
           /\ h[2].actualBalance.n > Fixed(500)

\* The forecast entries of a timeline, in its order.
Forecast(timeline) == Filter(timeline, {e \in Range(timeline) : e.isProjected})

\* volatility: the population standard deviation of the monthly spending of
\* the window, or 0.15 of its mean when that deviation is 0.
StatedVolatility(months) ==
    LET spendings == [k \in 1..Len(months) |-> months[k].spending]
        deviation == stddev(spendings)
    IN  IF deviation = 0 THEN Times(average(spendings), 15) ELSE deviation

\* C12: a populated projection has exactly 4 forecast entries, after the
\* historical ones, and the k-th has projectedBalance = currentBalance +
\* k * netChange, upperBound = projectedBalance + k * volatility and
\* lowerBound = projectedBalance - k * volatility.
C12_ForecastAccumulates ==
    (pc = "projected" /\ projection.hasData) =>
        LET tl == projection.timeline
            h == Len(Historical(tl))
            f == Forecast(tl)
            netChange == projection.projectedNet
            volatility == StatedVolatility(projection.months)
        IN  /\ Len(f) = 4
            /\ Len(tl) = h + 4
            /\ \A k \in 1..4 :
                    /\ tl[h + k] = f[k]
                    /\ f[k].projectedBalance
                          = JsNum(Fixed(currentBalance.n) + k * netChange)
                    /\ f[k].upperBound = f[k].projectedBalance.n + k * volatility
                    /\ f[k].lowerBound = f[k].projectedBalance.n - k * volatility

\* A forecast that falls month after month, with a band that comes from a
\* spending deviation above 0.
C12_Witness ==
    /\ pc = "projected"
    /\ projection.hasData
    /\ currentBalance = JsNum(500)
    /\ projection.projectedNet < 0
    /\ stddev([k \in 1..Len(projection.months) |-> projection.months[k].spending]) > 0
    /\ LET f == Forecast(projection.timeline)
       IN  /\ f[4].projectedBalance.n < f[1].projectedBalance.n
           /\ f[4].upperBound - f[4].lowerBound > f[1].upperBound - f[1].lowerBound

\* The band of a window whose months all spend the same: 0.15 of the mean.
C12_WitnessFallback ==
    /\ pc = "projected"
    /\ projection.hasData
    /\ projection.expectedSpending > 0
    /\ stddev([k \in 1..Len(projection.months) |-> projection.months[k].spending]) = 0
    /\ LET f == Forecast(projection.timeline)
       IN  f[1].upperBound - f[1].projectedBalance.n = Times(projection.expectedSpending, 15)

\* The income events of a ledger: the absolute values of the negative
\* amounts of the transactions with a parseable date.
StatedIncomeEvents(ledger) ==
    LET acc[k \in 0..Len(ledger)] ==
            IF k = 0 THEN <<>>
            ELSE IF StatedMonth(ledger[k]) # <<0, 0>> /\ ledger[k].amount < 0
            THEN Append(acc[k - 1], Fixed(0 - ledger[k].amount))
            ELSE acc[k - 1]
    IN  acc[Len(ledger)]

\* The label of a coefficient of variation: deviation / mean below 0.20,
\* below 0.45, or neither; low without income.
StatedConfidence(events) ==
    LET mean == average(events)
        deviation == stddev(events)
    IN  IF mean = 0 THEN "low"
        ELSE IF deviation * 100 < 20 * mean THEN "high"
        ELSE IF deviation * 100 < 45 * mean THEN "medium"
        ELSE "low"

\* C13: incomeConfidence is the label of the coefficient of variation of
\* the income events of the window (their population standard deviation
\* over their mean): high below 0.20, medium below 0.45, low otherwise or
\* without income, however the events are spread over the months.
C13_ConfidenceOfEvents ==
    (pc = "projected" /\ projection.hasData) =>
        projection.incomeConfidence = StatedConfidence(StatedIncomeEvents(transactions))

\* The same statement for the ledgers with at most one income event a month.
C13_OneEventAMonth ==
    (/\ pc = "projected" /\ projection.hasData
     /\ \A k \in 1..Len(projection.months) :
            Len(projection.months[k].incomeEvents) <= 1) =>
        projection.incomeConfidence = StatedConfidence(StatedIncomeEvents(transactions))

\* The income and the spending of a month: a negative amount is income of
\* its absolute value, any other amount is spending.
StatedIncome(ledger, m) ==
    LET acc[k \in 0..Len(ledger)] ==
            IF k = 0 THEN 0
            ELSE IF StatedMonth(ledger[k]) = m /\ ledger[k].amount < 0
            THEN acc[k - 1] - ledger[k].amount
            ELSE acc[k - 1]
    IN  Fixed(acc[Len(ledger)])

StatedSpending(ledger, m) ==
    LET acc[k \in 0..Len(ledger)] ==
            IF k = 0 THEN 0
            ELSE IF StatedMonth(ledger[k]) = m /\ ledger[k].amount >= 0
            THEN acc[k - 1] + ledger[k].amount
            ELSE acc[k - 1]
    IN  Fixed(acc[Len(ledger)])

\* The sum of a quantity over a set of months.
RECURSIVE StatedTotal(_, _, _)
StatedTotal(ledger, months, income) ==
    IF months = {} THEN 0
    ELSE LET m == CHOOSE x \in months : TRUE
         IN  (IF income THEN StatedIncome(ledger, m) ELSE StatedSpending(ledger, m))
                + StatedTotal(ledger, months \ {m}, income)

\* C14: in a populated projection expectedIncome is the mean of the monthly
\* income over the months of the window whose income is not 0 (0 without
\* such a month), expectedSpending is the mean of the monthly spending over
\* all months of the window, and projectedNet is their difference.
C14_ExpectedMeans ==
    (pc = "projected" /\ projection.hasData) =>
        LET months == StatedMonths(transactions)
            earning == {m \in months : StatedIncome(transactions, m) # 0}
        IN  /\ projection.expectedIncome =
                    IF earning = {} THEN 0
                    ELSE StatedTotal(transactions, earning, TRUE) \div Cardinality(earning)
            /\ projection.expectedSpending =
                    StatedTotal(transactions, months, FALSE) \div Cardinality(months)
            /\ projection.projectedNet =
                    projection.expectedIncome - projection.expectedSpending

\* Income 200, 200, 200 and spending 150, 170, 160 give 200, 160 and 40.
C14_Witness ==
    /\ pc = "projected"
    /\ projection.hasData
    /\ transactions =
            MonthLedger(1, <<0 - 200, 150>>) \o MonthLedger(2, <<170, 0 - 200>>)
                \o MonthLedger(3, <<0 - 200, 160>>)
    /\ projection.expectedIncome = Fixed(200)
    /\ projection.expectedSpending = Fixed(160)
    /\ projection.projectedNet = Fixed(40)

\* A month without income beside months with income: it counts for the
\* spending mean only.
C14_WitnessIdleMonth ==
    /\ pc = "projected"
    /\ projection.hasData
    /\ \E k \in 1..Len(projection.months) : projection.months[k].income = 0
    /\ projection.expectedIncome = Fixed(230)
    /\ projection.expectedSpending = Fixed(100)

\* C15: a second call with the same ledger and the same balance returns the
\* same result as the first: the same variant and, for a populated
\* projection, the same timeline, confidence, risks, category impacts and
\* expected amounts, whatever time has passed between the calls.
C15_SameArgumentsSameResult ==
    pc = "replayed" => replay = projection

\* A populated projection with risks and two category impacts, computed
\* again after the clock has moved.
C15_Witness ==
    /\ pc = "replayed"
    /\ now > ClockStart
    /\ projection.hasData
    /\ Len(projection.categoryImpacts) = 2
    /\ Len(projection.riskIndicators) >= 1
    /\ replay.timeline = projection.timeline

\* A ledger without its records whose date does not parse.
Cleaned(ledger) == Filter(ledger, {t \in Range(ledger) : StatedMonth(t) # <<0, 0>>})

\* C16 as stated: for every ledger and every balance that is not null the
\* result is the result for the ledger without the records whose date does
\* not parse.
C16_SameAsRemoved ==
    (pc = "projected" /\ currentBalance # JsAbsent) =>
        projection = buildFinancialProjection(Cleaned(transactions), currentBalance)

\* C16, amended: a record whose date does not parse enters no month bucket,
\* and for every ledger with at least one record whose date parses, and
\* every balance that is not null, the result is the result for the ledger
\* without the records whose date does not parse.
C16_SkipsUnparseable ==
    (pc = "projected" /\ currentBalance # JsAbsent) =>
        /\ Len(monthBuckets(transactions)) = Cardinality(StatedMonths(transactions))
        /\ Cleaned(transactions) # <<>> =>
                projection = buildFinancialProjection(Cleaned(transactions), currentBalance)

\* A populated projection of a ledger that holds a record with a date that
\* does not parse between the records of three months.
C16_Witness ==
    /\ pc = "projected"
    /\ currentBalance = JsNum(500)
    /\ Len(transactions) = 4
    /\ transactions[2].date = "not a date"
    /\ Len(Cleaned(transactions)) = 3
    /\ projection.hasData
    /\ projection = buildFinancialProjection(Cleaned(transactions), currentBalance)

(***************************************************************************)
(* Specification of the window of the ProjectionEngine: a ledger over      *)
(* MaxWindowMonths consecutive months, more than MAX_HISTORY, every month  *)
(* empty or with one of the profiles, listed oldest first or newest first; *)
(* the projection is computed, and computed again for the same             *)
(* transactions in another order.                                          *)
(***************************************************************************)

MaxWindowMonths == 7

WindowDates ==
    <<"2023-08-15", "2023-09-15", "2023-10-15", "2023-11-15",
      "2023-12-15", "2024-01-15", "2024-02-10", "2024-03-05">>

WindowProfiles == {<<>>, <<0 - 200, 20>>, <<400>>, <<0 - 200>>}

\* The transactions of the j-th month of WindowDates with the amounts of a profile.
WindowMonth(j, profile) ==
    [k \in 1..Len(profile) |->
        [date |-> WindowDates[j], amount |-> profile[k],
         category_primary |-> ProfileCategory(profile[k])]]

\* The two oldest months are empty or have one profile each.
WindowChoices(j) ==
    CASE j = 1 -> {<<>>, <<400>>}
      [] j = 2 -> {<<>>, <<0 - 200, 20>>}
      [] OTHER -> WindowProfiles

RECURSIVE WindowLedgers(_)
WindowLedgers(j) ==
    IF j = 0 THEN {<<>>}
    ELSE {rest \o WindowMonth(j, profile) :
            rest \in WindowLedgers(j - 1), profile \in WindowChoices(j)}

\* The same transactions in another order: reversed, rotated by one, or the
\* odd positions before the even ones.
Reordered(list, way) ==
    CASE way = 1 -> Reverse(list)
      [] way = 2 -> IF list = <<>> THEN list ELSE Tail(list) \o <<Head(list)>>
      [] OTHER -> LET odd == {k \in DOMAIN list : k % 2 = 1}
                      n == Cardinality(odd)
                  IN  [k \in DOMAIN list |-> IF k <= n THEN list[2 * k - 1]
                                             ELSE list[2 * (k - n)]]

InitWindow ==
    /\ pc = "project"
    /\ \E ledger \in WindowLedgers(MaxWindowMonths) :
          transactions \in {ledger, Reverse(ledger)}
    /\ currentBalance = JsNum(500)
    /\ projection = Idle /\ now = Idle /\ replay = Idle /\ shuffled = Idle /\ AppIdle
    /\ cmpArgs = Idle /\ cmpOut = Idle
    /\ domains = Idle /\ merged = Idle
    /\ insights = Idle /\ limit = 0 /\ selection = Idle
    /\ sectionInput = Idle /\ sections = Idle
    /\ chipInput = Idle /\ chips = Idle

\* The projection of the same transactions handed over in another order.
Reproject ==
    /\ pc = "projected"
    /\ \E way \in 1..3 :
          /\ shuffled' = Reordered(transactions, way)
          /\ replay' = buildFinancialProjection(shuffled', currentBalance)
    /\ pc' = "reprojected"
    /\ UNCHANGED <<cmpArgs, cmpOut, domains, merged, insights, limit, selection,
                   sectionInput, sections, chipInput, chips,
                   transactions, currentBalance, projection, now, appVars>>

NextWindow == Project \/ Reproject

SpecWindow == InitWindow /\ [][NextWindow]_vars

(***************************************************************************)
(* The quick view of the Dashboard: the insight snapshot is flattened and  *)
(* handed to getDiverseInsights (Dashboard.jsx, lines 530-541).            *)
(***************************************************************************)

\* { ...insight, domainKey: domain.key, familyKey: family.key }; the insights
\* of the snapshot carry no family and no timestamp of their own.
flattened(visit) ==
    [id |-> visit.insight.id, title |-> visit.insight.title,
     priority |-> visit.insight.priority, data |-> visit.insight.data,
     family |-> Undefined, created_at |-> Undefined, updated_at |-> Undefined,
     domainKey |-> visit.domain.key, familyKey |-> visit.family.key]

\* domains.flatMap(domain => domain.families.flatMap(family => ...))
allInsights(ds) ==
    LET visits == Traversal(ds)
    IN  [k \in 1..Len(visits) |-> flattened(visits[k])]

InitQuick ==
    /\ pc = "quick"
    /\ \E feed \in MergeFeeds : domains = MergeTree(feed)
    /\ insights = Idle /\ limit = 0 /\ selection = Idle
    /\ merged = Idle
    /\ cmpArgs = Idle /\ cmpOut = Idle
    /\ sectionInput = Idle /\ sections = Idle
    /\ chipInput = Idle /\ chips = Idle
    /\ transactions = Idle /\ currentBalance = Idle /\ projection = Idle
    /\ now = Idle /\ replay = Idle /\ shuffled = Idle /\ AppIdle

\* const quickInsights = getDiverseInsights(allInsights, 6)
Quick ==
    /\ pc = "quick"
    /\ insights' = allInsights(domains)
    /\ limit' = 6
    /\ selection' = getDiverseInsights(insights', limit')
    /\ pc' = "quickShown"
    /\ UNCHANGED <<cmpArgs, cmpOut, domains, merged,
                   sectionInput, sections, chipInput, chips,
                   transactions, currentBalance, projection, now, replay, shuffled, appVars>>

NextQuick == Quick

SpecQuick == InitQuick /\ [][NextQuick]_vars

\* C17: the collection handed to getDiverseInsights for the quick view is
\* what mergeSimilarInsights returns for the snapshot, and quickInsights
\* holds no two insights with the same familyKey and the same title.
C17_QuickViewIsMerged ==
    pc = "quickShown" =>
        /\ [k \in 1..Len(insights) |-> insights[k].id]
              = [k \in 1..Len(mergeSimilarInsights(domains)) |->
                    mergeSimilarInsights(domains)[k].id]
        /\ \A i, j \in 1..Len(selection) :
                (/\ selection[i].familyKey = selection[j].familyKey
                 /\ selection[i].title = selection[j].title) => i = j

\* The months since year 0 of the calendar months that hold a transaction
\* with a parseable date.
PopulatedMonths(ledger) ==
    {StatedMonth(ledger[k])[1] * 12 + StatedMonth(ledger[k])[2] - 1 :
        k \in {i \in DOMAIN ledger : StatedMonth(ledger[i]) # <<0, 0>>}}

\* The min(6, m) most recent of them.
RecentMonths(ledger) ==
    LET all == PopulatedMonths(ledger)
    IN  {d \in all : Cardinality({e \in all : e > d}) < 6}

\* The ledger without the transactions of the older months.
WithoutOlder(ledger) ==
    Filter(ledger, {t \in Range(ledger) :
                      \/ StatedMonth(t) = <<0, 0>>
                      \/ StatedMonth(t)[1] * 12 + StatedMonth(t)[2] - 1
                            \in RecentMonths(ledger)})

\* C24: the historical part of the timeline covers exactly the min(6, m)
\* most recent of the m calendar months with a parseable transaction, in
\* chronological order, and the result is the one of the ledger without the
\* transactions of the older months.
C24_WindowOfSix ==
    pc = "projected" =>
        /\ projection = buildFinancialProjection(WithoutOlder(transactions), currentBalance)
        /\ projection.hasData =>
              LET h == Historical(projection.timeline)
              IN  /\ {h[k].date : k \in DOMAIN h} = RecentMonths(transactions)
                  /\ Len(h) = Min(6, Cardinality(PopulatedMonths(transactions)))
                  /\ \A k \in 1..(Len(h) - 1) : h[k].date < h[k + 1].date

\* Seven populated months listed newest first: the oldest, whose spending
\* of 400 no other month has, is left out and the six others are listed
\* oldest first.
C24_Witness ==
    /\ pc = "projected" /\ projection.hasData
    /\ Cardinality(PopulatedMonths(transactions)) = 7
    /\ StatedMonth(transactions[1]) = <<2024, 2>>
    /\ Len(Historical(projection.timeline)) = 6
    /\ transactions[Len(transactions)].amount = 400
    /\ \A k \in 1..(Len(transactions) - 1) : transactions[k].amount # 400
    /\ projection.expectedSpending = Fixed(20)

\* The monthly spending of the historical entries, in whole units, with its
\* sum and the sum of its squares.
SpendingOf(h) == [k \in DOMAIN h |-> h[k].spending \div Scale]

SumOfSquares(values) ==
    LET acc[k \in 0..Len(values)] ==
            IF k = 0 THEN 0 ELSE acc[k - 1] + values[k] * values[k]
    IN  acc[Len(values)]

\* x exceeds the mean of the values by more than 1.8 population standard
\* deviations, and the deviation is not 0.  With n values of sum S and sum
\* of squares Q, n * n times the variance is n * Q - S * S, and x - mean is
\* (n * x - S) / n; 1.8 squared is 324 / 100.
StatedAnomaly(x, values) ==
    LET n == Len(values)
        S == Sum(values)
        Q == SumOfSquares(values)
    IN  /\ n * Q - S * S > 0
        /\ n * x - S > 0
        /\ 100 * (n * x - S) * (n * x - S) > 324 * (n * Q - S * S)

\* C25: a historical entry has anomaly = true exactly when the population
\* standard deviation of the windowed months' spending is above 0 and the
\* month's spending exceeds the mean by more than 1.8 deviations; forecast
\* entries carry no anomaly flag.
C25_AnomalyThreshold ==
    (pc = "projected" /\ projection.hasData) =>
        LET h == Historical(projection.timeline)
            f == Forecast(projection.timeline)
        IN  /\ \A k \in DOMAIN h :
                  h[k].anomaly <=> StatedAnomaly(SpendingOf(h)[k], SpendingOf(h))
            /\ \A k \in DOMAIN f : "anomaly" \notin DOMAIN f[k]

\* Five windowed months, one of them flagged: its spending of 400 stands
\* against 20 in each of the others.
C25_Witness ==
    /\ pc = "projected" /\ projection.hasData
    /\ LET h == Historical(projection.timeline)
       IN  /\ Len(h) = 5
           /\ \E k \in DOMAIN h :
                 /\ h[k].anomaly /\ h[k].spending = Fixed(400)
                 /\ \A j \in DOMAIN h \ {k} : ~h[j].anomaly /\ h[j].spending = Fixed(20)

\* The positions of the historical entries that are flagged.
Flagged(h) == {k \in DOMAIN h : h[k].anomaly}

\* C26: with 3 or 4 months in the window no historical month is flagged
\* anomalous, and with 5 or 6 months at most one is.
C26_FewMonthsNoAnomaly ==
    (pc = "projected" /\ projection.hasData) =>
        LET h == Historical(projection.timeline)
        IN  /\ Len(h) \in 3..6
            /\ Len(h) <= 4 => Flagged(h) = {}
            /\ Cardinality(Flagged(h)) <= 1

\* Four windowed months, three with a spending of 20 and one with 400, the
\* farthest one value can lie from the others: no month is flagged.
C26_Witness ==
    /\ pc = "projected" /\ projection.hasData
    /\ LET h == Historical(projection.timeline)
       IN  /\ Len(h) = 4
           /\ Cardinality({k \in DOMAIN h : h[k].spending = Fixed(400)}) = 1
           /\ Cardinality({k \in DOMAIN h : h[k].spending = Fixed(20)}) = 3
           /\ Flagged(h) = {}

\* Six windowed months, one of them with a spending of 400, and it is the
\* one month flagged.
C26_WitnessSix ==
    /\ pc = "projected" /\ projection.hasData
    /\ LET h == Historical(projection.timeline)
       IN  /\ Len(h) = 6
           /\ Cardinality({k \in DOMAIN h : h[k].spending = Fixed(400)}) = 1
           /\ Cardinality(Flagged(h)) = 1

\* C27: in a populated projection every forecast entry has lowerBound <=
\* projectedBalance <= upperBound and coneHeight = upperBound - lowerBound =
\* 2 * k * volatility for the k-th forecast month, so the cone never narrows;
\* every historical entry has lowerBound = upperBound = actualBalance and a
\* coneHeight of 0.
C27_WideningCone ==
    (pc = "projected" /\ projection.hasData) =>
        LET h == Historical(projection.timeline)
            f == Forecast(projection.timeline)
            volatility == StatedVolatility(projection.months)
        IN  /\ \A k \in DOMAIN f :
                  /\ f[k].lowerBound <= f[k].projectedBalance.n
                  /\ f[k].projectedBalance.n <= f[k].upperBound
                  /\ f[k].coneHeight = f[k].upperBound - f[k].lowerBound
                  /\ f[k].coneHeight = 2 * k * volatility
            /\ \A k \in 1..(Len(f) - 1) : f[k].coneHeight <= f[k + 1].coneHeight
            /\ \A k \in DOMAIN h :
                  /\ h[k].lowerBound = h[k].actualBalance.n
                  /\ h[k].upperBound = h[k].actualBalance.n
                  /\ h[k].coneHeight = 0

\* A projection whose spending varies from month to month: the cone grows
\* by twice the volatility with every forecast month.
C27_Witness ==
    /\ pc = "projected" /\ projection.hasData
    /\ LET f == Forecast(projection.timeline)
       IN  /\ Len(f) = 4
           /\ f[1].coneHeight > 0
           /\ f[4].coneHeight = 4 * f[1].coneHeight
           /\ f[4].lowerBound < 0

\* A projection without any spending: the volatility is 0 and the cone has
\* no height.
C27_WitnessNoSpending ==
    /\ pc = "projected" /\ projection.hasData
    /\ projection.expectedSpending = 0
    /\ \A k \in DOMAIN projection.timeline : projection.timeline[k].coneHeight = 0

\* The balances and bounds of a timeline, entry by entry.
BalancesOf(timeline) ==
    [k \in DOMAIN timeline |->
        [actualBalance |-> timeline[k].actualBalance,
         projectedBalance |-> timeline[k].projectedBalance,
         lowerBound |-> timeline[k].lowerBound,
         upperBound |-> timeline[k].upperBound]]

\* What C28 compares of a result.
OrderFree(r) ==
    IF r.hasData
    THEN [hasData |-> TRUE, reason |-> r.reason,
          balances |-> BalancesOf(r.timeline),
          expectedIncome |-> r.expectedIncome,
          expectedSpending |-> r.expectedSpending,
          projectedNet |-> r.projectedNet,
          incomeConfidence |-> r.incomeConfidence,
          riskIndicators |-> r.riskIndicators]
    ELSE [hasData |-> FALSE, reason |-> r.reason]

\* C28: for a permutation of the transaction list and the same balance
\* buildFinancialProjection returns the same variant, the same timeline
\* balances and bounds, the same expectedIncome, expectedSpending,
\* projectedNet, incomeConfidence and riskIndicators.
C28_OrderIndependent ==
    pc = "reprojected" => OrderFree(replay) = OrderFree(projection)

\* A populated projection of seven months, computed from a ledger and from
\* the same transactions in another order.
C28_Witness ==
    /\ pc = "reprojected"
    /\ projection.hasData /\ replay.hasData
    /\ shuffled # transactions
    /\ Len(shuffled) = Len(transactions)
    /\ Cardinality(PopulatedMonths(transactions)) = 7
    /\ StatedMonth(shuffled[1]) # StatedMonth(transactions[1])

\* The (familyKey, title) pairs of the insights of a tree.
PairsOf(ds) ==
    {<<Traversal(ds)[k].family.key, Traversal(ds)[k].insight.title>> :
        k \in DOMAIN Traversal(ds)}

\* C29: mergeSimilarInsights merges only true duplicates: every (familyKey,
\* title) pair of the tree is the pair of a returned insight, so the output
\* has as many insights as the tree has distinct pairs, whatever the keys
\* and titles, the ones containing '|' included.
C29_OnlyTrueDuplicates ==
    pc = "merged" =>
        /\ \A pair \in PairsOf(domains) :
              \E n \in DOMAIN merged :
                  merged[n].familyKey = pair[1] /\ merged[n].title = pair[2]
        /\ Len(merged) = Cardinality(PairsOf(domains))

(***************************************************************************)
(* The session of the App (App.jsx): login, the connection check and the   *)
(* Plaid link token, logout.  A handler that awaits a request is a call in *)
(* flight; the response resumes it at any later time, whatever else ran in *)
(* between.  A link token is named by the user it was created for: the one *)
(* logged in when the request was sent.  The page is opened in a browser   *)
(* whose localStorage is empty.                                            *)
(***************************************************************************)

MaxLogins == 2
MaxRefreshes == 1

Users == {1, 2}

\* A handler awaiting the response of a request (sender: who was logged in
\* when the request left, for createLinkToken).
Call(at, userId, sender) == [at |-> at, userId |-> userId, sender |-> sender]

engineVars == <<pc, cmpArgs, cmpOut, domains, merged, insights, limit, selection,
                sectionInput, sections, chipInput, chips,
                transactions, currentBalance, projection, now, replay, shuffled>>

InitSession ==
    /\ pc = "session"
    /\ AppIdle
    /\ cmpArgs = Idle /\ cmpOut = Idle
    /\ domains = Idle /\ merged = Idle
    /\ insights = Idle /\ limit = 0 /\ selection = Idle
    /\ sectionInput = Idle /\ sections = Idle
    /\ chipInput = Idle /\ chips = Idle
    /\ transactions = Idle /\ currentBalance = Idle /\ projection = Idle
    /\ now = Idle /\ replay = Idle /\ shuffled = Idle

\* handleLogin up to its first await (line 110); the login form is shown
\* while no user is set.
Login ==
    /\ user = 0
    /\ logins < MaxLogins
    /\ \E u \in Users : calls' = calls \cup {Call("login", u, 0)}
    /\ logins' = logins + 1
    /\ UNCHANGED <<engineVars, user, linkToken, storedToken, isConnected,
                   linkError, linkLoading, refreshes>>

\* authAPI.login resolved: lines 111-116 up to the await of getAccounts in
\* checkConnectionStatus (line 70).
LoginResolved ==
    \E c \in calls :
        /\ c.at = "login"
        /\ user' = c.userId
        /\ calls' = (calls \ {c}) \cup {Call("getAccounts", c.userId, 0)}
        /\ UNCHANGED <<engineVars, linkToken, storedToken, isConnected,
                       linkError, linkLoading, logins, refreshes>>

\* authAPI.login rejected: handleLogin throws to the form.
LoginRejected ==
    \E c \in calls :
        /\ c.at = "login"
        /\ calls' = calls \ {c}
        /\ UNCHANGED <<engineVars, user, linkToken, storedToken, isConnected,
                       linkError, linkLoading, logins, refreshes>>

\* getAccounts resolved with accounts: lines 71-72, 75-77.
AccountsConnected ==
    \E c \in calls :
        /\ c.at = "getAccounts"
        /\ isConnected' = TRUE
        /\ linkToken' = 0
        /\ calls' = calls \ {c}
        /\ UNCHANGED <<engineVars, user, storedToken, linkError, linkLoading,
                       logins, refreshes>>

\* getAccounts resolved without accounts: lines 71-74 and fetchLinkToken
\* (lines 30-46) up to its await; a stored token is taken as it is.
AccountsEmpty ==
    \E c \in calls :
        /\ c.at = "getAccounts"
        /\ isConnected' = FALSE
        /\ IF storedToken # 0
           THEN /\ linkToken' = storedToken
                /\ calls' = calls \ {c}
                /\ UNCHANGED <<linkError, linkLoading>>
           ELSE /\ linkError' = FALSE
                /\ linkLoading' = TRUE
                /\ calls' = (calls \ {c}) \cup {Call("createLinkToken", c.userId, user)}
                /\ UNCHANGED linkToken
        /\ UNCHANGED <<engineVars, user, storedToken, logins, refreshes>>

\* getAccounts rejected: lines 79-83.
AccountsRejected ==
    \E c \in calls :
        /\ c.at = "getAccounts"
        /\ isConnected' = FALSE
        /\ calls' = calls \ {c}
        /\ UNCHANGED <<engineVars, user, linkToken, storedToken, linkError,
                       linkLoading, logins, refreshes>>

\* createLinkToken resolved: lines 47-50 and 59.  A token is created for the
\* user whose request it was; a request sent with nobody logged in gets none.
LinkTokenResolved ==
    \E c \in calls :
        /\ c.at = "createLinkToken"
        /\ c.sender # 0
        /\ linkToken' = c.sender
        /\ storedToken' = c.sender
        /\ linkLoading' = FALSE
        /\ calls' = calls \ {c}
        /\ UNCHANGED <<engineVars, user, isConnected, linkError, logins, refreshes>>

\* createLinkToken rejected: lines 51-59.
LinkTokenRejected ==
    \E c \in calls :
        /\ c.at = "createLinkToken"
        /\ linkToken' = 0
        /\ storedToken' = 0
        /\ linkError' = TRUE
        /\ linkLoading' = FALSE
        /\ calls' = calls \ {c}
        /\ UNCHANGED <<engineVars, user, isConnected, logins, refreshes>>

\* handleRefreshLinkToken, confirmed: fetchLinkToken(user.id, { force: true })
\* up to its await.
Refresh ==
    /\ user # 0
    /\ ~linkLoading
    /\ refreshes < MaxRefreshes
    /\ refreshes' = refreshes + 1
    /\ linkError' = FALSE
    /\ linkLoading' = TRUE
    /\ calls' = calls \cup {Call("createLinkToken", user, user)}
    /\ UNCHANGED <<engineVars, user, linkToken, storedToken, isConnected, logins>>

\* handleLogout (lines 155-167); nothing cancels the requests in flight.
Logout ==
    /\ user # 0
    /\ user' = 0
    /\ linkToken' = 0
    /\ storedToken' = 0
    /\ isConnected' = FALSE
    /\ linkError' = FALSE
    /\ linkLoading' = FALSE
    /\ UNCHANGED <<engineVars, calls, logins, refreshes>>

NextSession ==
    \/ Login \/ LoginResolved \/ LoginRejected
    \/ AccountsConnected \/ AccountsEmpty \/ AccountsRejected
    \/ LinkTokenResolved \/ LinkTokenRejected
    \/ Refresh \/ Logout

SpecSession == InitSession /\ [][NextSession]_vars

\* C30: once handleLogout has run no link token of the logged-out user is
\* left in the linkToken state or in localStorage, and fetchLinkToken hands
\* none to the next user: a token in the state or in localStorage is a token
\* of the user who is logged in, in every interleaving of logout with a
\* createLinkToken request in flight.
C30_NoTokenOfLoggedOutUser ==
    /\ linkToken \in {0, user}
    /\ storedToken \in {0, user}

=============================================================================
